---- MODULE Spec2Model ----
(***************************************************************************)
(* A model of the MMC-scrape scripts.                                      *)
(*                                                                         *)
(*   Spec         the parallel runners: main and process_batch of          *)
(*                scripts/parallel_scraper_full.py and                     *)
(*                scripts/scrape_bad_modules.py, main of                   *)
(*                scripts/parallel_scraper_demo.py and of                  *)
(*                tests/test_parallel_simple.py, with the thread pool's    *)
(*                tasks as interleaved steps.                              *)
(*   SpecLive     Spec with the fairness of the threads.                   *)
(*   SpecExtract  extract_images_from_json of scripts/extract_images_now.py*)
(*                run twice on one blob and one output directory.          *)
(*   SpecFilter   the CSV filters of scripts/extract_bad_modules_csv.py    *)
(*                and scripts/scrape_bad_modules.py.                       *)
(*   SpecAll      extract_all_images and main of extract_images_all.py,    *)
(*                each file's extract_images_now.py subprocess as a step.  *)
(*   SpecCourse   process_course_url and scrape_and_save of                *)
(*                scripts/fixed_scraper.py and of firecrawl_scraper.py,    *)
(*                one fetch or subprocess per step.                        *)
(*   SpecBatches  create_worker_batches of tests/test_full_scraper.py,     *)
(*                one pass of its loop per step.                           *)
(*                                                                         *)
(* Text is a sequence of one-character strings.  An exception message is   *)
(* drawn from the strings "x"*n and is represented by its length n.        *)
(***************************************************************************)
EXTENDS Integers, Sequences, FiniteSets, TLC

VARIABLES
    \* ---- the parallel runners
    script,           \* which runner: "full", "bad", "demo", "simple"
    dry_run,          \* scrape_bad_modules was started with --dry-run
    urls,             \* the loaded list of url_data records
    api_keys,         \* the loaded list of API keys
    pc,               \* position of main
    batch_num,        \* the loop variable of main
    tasks,            \* the task tuples of the batch in the pool
    task_state,       \* per task: "queued", "running", "done"
    scraper_key,      \* per task: the key its CourseContentScraper holds
    future,           \* per task: what the task function returned or raised
    batch_results,    \* process_batch's batch_results
    all_results,      \* main's all_results
    waits,            \* the time.sleep calls that have ended
    csv_files,        \* the result CSV files written, each a list of rows
    failed_files,     \* the failed-modules text files written
    times_processed,  \* per url index: how often a task for it has started
    outcomes,         \* per url index: what process_course_url did
    \* ---- the image extractor
    xpc,              \* position of the extractor
    blob,             \* the JSON file handed to extract_images_from_json
    out_dir,          \* the files of the output directory
    entry_idx,        \* the entry of images_data the loop is at
    extracted_count,  \* extract_images_from_json's extracted_count
    entry_log,        \* per entry handled in this call: what was done
    run,              \* the first or the second call on the same blob
    first_dir,        \* the output directory when the first call returned
    first_count,      \* what the first call returned
    \* ---- the CSV filters
    fpc,              \* position of the filter scripts
    master_rows,      \* the rows of the master lesson CSV
    bad_lines,        \* the lines of scripts/bad_modules.txt
    limit,            \* the --limit argument of scrape_bad_modules
    matching_rows,    \* extract_bad_modules_csv's matching_rows
    filtered_csv,     \* the filtered CSV files written
    matching_urls,    \* what load_matching_urls_from_csv returned
    all_urls,         \* what load_all_urls returned
    \* ---- extract_images_all
    apc,              \* position of extract_images_all
    json_folder,      \* the JSON folder: whether it exists, and its files
    script_exists,    \* extract_images_now.py is beside extract_images_all.py
    python3_found,    \* subprocess.run can start python3
    json_files,       \* extract_all_images's json_files
    file_idx,         \* the file of json_files the loop is at
    total_extracted,  \* extract_all_images's total_extracted
    successful_files, \* extract_all_images's successful_files
    runs,             \* per file handled: the outcome of its subprocess
    images_folder,    \* the files of extracted_images
    exit_status,      \* the exit status of extract_images_all
    \* ---- process_course_url
    cpc,              \* the step process_course_url is at
    variant,          \* "fixed": scripts/fixed_scraper.py, "firecrawl"
    xml_url,          \* the course URL
    manifest,         \* what the scraping API answers for the manifest
    json_list,        \* process_course_url's json_files
    json_idx,         \* the file of json_files the loop is at
    successful_json_files,
    calls,            \* the fetches and the extractor run, in order
    disk,             \* the files of the course folder
    \* ---- create_worker_batches
    wpc,              \* position of create_worker_batches
    test_urls,        \* its argument urls
    test_keys,        \* its argument api_keys
    max_workers,      \* its argument max_workers
    num_workers,
    courses_per_worker,
    worker_i,         \* the loop variable i
    worker_tasks      \* the list it builds and returns

runnerVars == <<script, dry_run, urls, api_keys, pc, batch_num, tasks, task_state,
                scraper_key, future, batch_results, all_results, waits,
                csv_files, failed_files, times_processed, outcomes>>
extractVars == <<xpc, blob, out_dir, entry_idx, extracted_count, entry_log,
                 run, first_dir, first_count>>
filterVars == <<fpc, master_rows, bad_lines, limit, matching_rows,
                filtered_csv, matching_urls, all_urls>>
allVars == <<apc, json_folder, script_exists, python3_found, json_files,
             file_idx, total_extracted, successful_files, runs,
             images_folder, exit_status>>
courseVars == <<cpc, variant, xml_url, manifest, json_list, json_idx,
                successful_json_files, calls, disk>>
batchVars == <<wpc, test_urls, test_keys, max_workers, num_workers,
               courses_per_worker, worker_i, worker_tasks>>
vars == <<runnerVars, extractVars, filterVars, allVars, courseVars, batchVars>>

----------------------------------------------------------------------------
(* Bounds of the model. *)
MaxUrls == 4
MaxKeys == 3
MaxEntries == 2
MaxRows == 3
MaxBadLines == 2
MaxLimit == 2

----------------------------------------------------------------------------
(* General helpers. *)
Min(a, b) == IF a <= b THEN a ELSE b

Rep(c, n) == [i \in 1..n |-> c]

Take(s, n) == SubSeq(s, 1, Min(n, Len(s)))

----------------------------------------------------------------------------
(* Program constants. *)
WaitTime == 30
ErrorLimitFull == 200
ErrorLimitDemo == 100
DemoUrlCount == 10
DemoMaxWorkers == 10
KeyShown == 20

Scripts == {"full", "bad", "demo", "simple"}

Batched(s) == s \in {"full", "bad"}

(* The lesson IDs of the CSV rows, in CSV order: not sorted, one repeated. *)
LessonIds == << <<"9">>, <<"1", "0">>, <<"2">>, <<"9">>, <<"1">>, <<"3">> >>

(* The lines of "API keys.txt". *)
KeyLines == << <<"f", "c", "-", "a">>, <<"f", "c", "-", "b">>,
               <<"f", "c", "-", "c">>, <<"f", "c", "-", "d">>,
               <<"f", "c", "-", "e">> >>

(* The lengths of the messages an exception of process_course_url carries. *)
ExcMsgs == {150, 250}

(* load_all_urls, load_matching_urls_from_csv, load_first_10_urls,
   load_first_n_urls: the url_data record of CSV row u. *)
UrlData(s, u) ==
    IF s = "bad"
    THEN [url |-> u, lesson_id |-> LessonIds[u], course_id |-> u]
    ELSE [url |-> u, lesson_id |-> LessonIds[u]]

LoadUrls(s, n) ==
    LET m == IF Batched(s) THEN n ELSE Min(n, DemoUrlCount)
    IN  [u \in 1..m |-> UrlData(s, u)]

(* load_api_keys. *)
LoadApiKeys(k) == [i \in 1..k |-> KeyLines[i]]

(* api_key[:20] + "..." *)
KeyDisplay(k) == Take(k, KeyShown) \o <<".", ".", ".">>

(* str(e)[:limit] on the message "x"*n. *)
Truncate(n, lim) == Min(n, lim)

----------------------------------------------------------------------------
(* The course folder of a URL: extract_folder_name of
   scripts/fixed_scraper.py.  A URL is the list of its '/'-separated
   parts, each part a text. *)

(* The link cells of the CSV rows, in CSV order: two lessons of different
   courses with the same last directory, and one row repeated. *)
Links ==
    << << <<"h", "t", "t", "p", "s", ":">>, <<>>, <<"h">>, <<"c", "1">>, <<"l", "1">>, <<"i", "m", "s", "m", "a", "n", "i", "f", "e", "s", "t", ".", "x", "m", "l">> >>,
       << <<"h", "t", "t", "p", "s", ":">>, <<>>, <<"h">>, <<"c", "2">>, <<"l", "1">>, <<"i", "m", "s", "m", "a", "n", "i", "f", "e", "s", "t", ".", "x", "m", "l">> >>,
       << <<"h", "t", "t", "p", "s", ":">>, <<>>, <<"h">>, <<"c", "1">>, <<"l", "2">>, <<"i", "m", "s", "m", "a", "n", "i", "f", "e", "s", "t", ".", "x", "m", "l">> >>,
       << <<"h", "t", "t", "p", "s", ":">>, <<>>, <<"h">>, <<"c", "1">>, <<"l", "1">>, <<"i", "m", "s", "m", "a", "n", "i", "f", "e", "s", "t", ".", "x", "m", "l">> >>,
       << <<"h", "t", "t", "p", "s", ":">>, <<>>, <<"h">>, <<"c", "3">>, <<"l", "3">>, <<"i", "m", "s", "m", "a", "n", "i", "f", "e", "s", "t", ".", "x", "m", "l">>, <<>> >>,
       << <<"h", "t", "t", "p", "s", ":">>, <<>>, <<"h">>, <<"c", "3">>, <<"l", "4">>, <<"i", "n", "d", "e", "x", ".", "x", "m", "l">> >> >>

(* url.rstrip('/').split('/') *)
RECURSIVE RstripSplit(_)
RstripSplit(parts) ==
    IF Len(parts) > 1 /\ parts[Len(parts)] = <<>>
    THEN RstripSplit(SubSeq(parts, 1, Len(parts) - 1))
    ELSE parts

ManifestName == <<"i", "m", "s", "m", "a", "n", "i", "f", "e", "s", "t", ".", "x", "m", "l">>

FallbackFolder == <<"c", "o", "u", "r", "s", "e", "_", "c", "o", "n", "t", "e", "n", "t">>

ExtractFolderName(url) ==
    LET path_parts == RstripSplit(url)
        hits == {i \in 2..Len(path_parts) : path_parts[i] = ManifestName}
    IN  IF hits # {}
        THEN path_parts[(CHOOSE i \in hits : \A k \in hits : i <= k) - 1]
        ELSE IF Len(path_parts) >= 2 THEN path_parts[Len(path_parts) - 1]
        ELSE FallbackFolder

(* The folder in which the task for url_data creates and writes its
   files: process_course_url's main_folder. *)
MainFolder(url_data) == ExtractFolderName(Links[url_data.url])

----------------------------------------------------------------------------
(* main: the batch arithmetic. *)
BatchSizeAllUrls(s) == Len(urls)

(* batch_size = len(api_keys); the demo and the test have one batch. *)
BatchSize(s) == IF Batched(s) THEN Len(api_keys) ELSE Len(urls)

TotalBatches(s) == (Len(urls) + BatchSize(s) - 1) \div BatchSize(s)

StartIdxOverlap(b, size) == (b - 1) * (size - 1)

StartIdx(b, size) == (b - 1) * size

EndIdx(b, size, n) == Min(StartIdx(b, size) + size, n)

(* urls[start_idx:end_idx] *)
BatchUrls(b) ==
    LET lo == StartIdx(b, BatchSize(script))
        hi == EndIdx(b, BatchSize(script), Len(urls))
    IN  SubSeq(urls, lo + 1, hi)

(* The index in urls of the task at 1-based position j of batch b. *)
UrlIndex(b, j) == StartIdx(b, BatchSize(script)) + j

KeyIndexShifted(i, k) == (i + 1) % k

(* i % len(api_keys), for the 0-based position i of a task in its list. *)
KeyIndex(i, k) == i % k

(* The task tuples: (url_data, api_key, worker_id, batch_num). *)
MakeTasks(batch_urls, keys, b) ==
    [j \in 1..Len(batch_urls) |->
        [url_data |-> batch_urls[j],
         api_key |-> keys[KeyIndex(j - 1, Len(keys)) + 1],
         worker_id |-> j,
         batch_num |-> b]]

MaxWorkersNone(s, nTasks, nKeys) == 0

(* The max_workers handed to ThreadPoolExecutor. *)
MaxWorkers(s, nTasks, nKeys) ==
    CASE s \in {"full", "bad"} -> Min(nTasks, nKeys)
      [] s = "demo" -> Min(DemoMaxWorkers, nKeys)
      [] s = "simple" -> DemoMaxWorkers

----------------------------------------------------------------------------
(* scrape_single_course / scrape_single_url.  outcome is what
   process_course_url did: [kind |-> "return", xml_content |-> b], where
   b tells whether the manifest was fetched (the method returns None
   either way), or [kind |-> "raise", msg |-> n].  The result is what the task function
   does: it returns a result record or lets the exception out. *)
ErrorLimit(s) == IF Batched(s) THEN ErrorLimitFull ELSE ErrorLimitDemo

ErrorText(s, msg) == IF s = "simple" THEN msg ELSE Truncate(msg, ErrorLimit(s))

BaseRecord(s, args, status) ==
    LET r0 == [worker_id |-> args.worker_id,
               lesson_id |-> args.url_data.lesson_id,
               status |-> status]
        r1 == IF s = "simple" THEN r0
              ELSE r0 @@ [api_key |-> KeyDisplay(args.api_key)]
        r2 == IF Batched(s) THEN r1 @@ [batch_num |-> args.batch_num] ELSE r1
    IN  IF s = "bad" THEN r2 @@ [course_id |-> args.url_data.course_id] ELSE r2

ScrapeSingleCourseNoCatch(s, args, outcome) ==
    IF outcome.kind = "return"
    THEN [kind |-> "return", value |-> BaseRecord(s, args, "success")]
    ELSE [kind |-> "raise", msg |-> outcome.msg]

ScrapeSingleCourse(s, args, outcome) ==
    IF outcome.kind = "return"
    THEN [kind |-> "return", value |-> BaseRecord(s, args, "success")]
    ELSE [kind |-> "return",
          value |-> BaseRecord(s, args, "failed")
                       @@ [error |-> ErrorText(s, outcome.msg)]]

Outcomes ==
    {[kind |-> "return", xml_content |-> b] : b \in BOOLEAN}
        \cup {[kind |-> "raise", msg |-> m] : m \in ExcMsgs}

----------------------------------------------------------------------------
(* main: the result files. *)
Failed(results) == SelectSeq(results, LAMBDA r : r.status = "failed")

Successful(results) == SelectSeq(results, LAMBDA r : r.status = "success")

(* The place of s[j] in sorted(s, key=...): sorted is stable, so s[k]
   goes before s[j] when its key is smaller, or equal with k < j. *)
StableRank(s, j, KeyLess(_, _)) ==
    1 + Cardinality({k \in 1..Len(s) :
                        \/ KeyLess(s[k], s[j])
                        \/ ~KeyLess(s[j], s[k]) /\ k < j})

StableSort(s, KeyLess(_, _)) ==
    [i \in 1..Len(s) |->
        s[CHOOSE j \in 1..Len(s) : StableRank(s, j, KeyLess) = i]]

(* (batch_num, worker_id) tuples compared *)
WorkerKeyLess(a, b) ==
    \/ a.batch_num < b.batch_num
    \/ /\ a.batch_num = b.batch_num
       /\ a.worker_id < b.worker_id

(* sorted(all_results, key=lambda x: (x["batch_num"], x["worker_id"])) *)
SortByWorker(s) == StableSort(s, WorkerKeyLess)

(* result.get('error', '') *)
ErrorOf(r) == IF "error" \in DOMAIN r THEN r.error ELSE 0

(* The rows the csv.DictWriter writes. *)
CsvRow(s, r) ==
    LET row == [batch_num |-> r.batch_num,
                worker_id |-> r.worker_id,
                lesson_id |-> r.lesson_id,
                status |-> r.status,
                api_key |-> r.api_key,
                error |-> ErrorOf(r)]
    IN  IF s = "bad" THEN row @@ [course_id |-> r.course_id] ELSE row

CsvRowsSuccessOnly(s, results) ==
    LET sorted == SortByWorker(Successful(results))
    IN  [i \in 1..Len(sorted) |-> CsvRow(s, sorted[i])]

CsvRows(s, results) ==
    LET sorted == SortByWorker(results)
    IN  [i \in 1..Len(sorted) |-> CsvRow(s, sorted[i])]

(* Python's order of one-character strings, on the characters used here. *)
CharOrder == <<" ", "#", ".", "/", "0", "1", "2", "3", "4", "5", "6", "7",
               "8", "9", "A", "B", "D", "F", "G", "I", "J", "M", "N", "O",
               "R", "S", "_", "a", "b", "d", "e", "g", "h", "i", "j", "m",
               "n", "o", "r", "s", "t">>

Ord(c) == CHOOSE i \in 1..Len(CharOrder) : CharOrder[i] = c

(* a < b on str *)
RECURSIVE StrLess(_, _)
StrLess(a, b) ==
    IF b = <<>> THEN FALSE
    ELSE IF a = <<>> THEN TRUE
    ELSE IF Head(a) # Head(b) THEN Ord(Head(a)) < Ord(Head(b))
    ELSE StrLess(Tail(a), Tail(b))

LessonKeyLess(a, b) == StrLess(a.lesson_id, b.lesson_id)

(* sorted(failed, key=lambda x: x["lesson_id"]) *)
SortByLesson(s) == StableSort(s, LessonKeyLess)

(* The lines of the failed-modules text file: four '#' lines, a blank
   line, then one lesson ID per failed result. *)
FailedHeader == << <<"#", " ", "F">>, <<"#", " ", "G">>, <<"#", " ", "T">>,
                   <<"#", " ", "Y">>, <<>> >>

FailedLinesUnsorted(failed) ==
    FailedHeader \o [i \in 1..Len(failed) |-> failed[i].lesson_id]

FailedLines(failed) ==
    LET sorted == SortByLesson(failed)
    IN  FailedHeader \o [i \in 1..Len(sorted) |-> sorted[i].lesson_id]

----------------------------------------------------------------------------
(* The parallel runners. *)
Pending == [kind |-> "pending"]

NoOutcome == [kind |-> "none"]

NoKey == <<>>

Running == {j \in 1..Len(tasks) : task_state[j] = "running"}

(* for batch_num in range(1, total_batches + 1) *)
LoopContinues(b, total) == b <= total

NeedsWaitAlways(b, total) == b <= total

(* if batch_num < total_batches: time.sleep(wait_time) *)
NeedsWait(b, total) == b < total

InitIdleExtract ==
    /\ xpc = "idle" /\ blob = <<>> /\ out_dir = {} /\ entry_idx = 0
    /\ extracted_count = 0 /\ entry_log = <<>> /\ run = 0 /\ first_dir = {}
    /\ first_count = 0

InitIdleFilter ==
    /\ fpc = "idle" /\ master_rows = <<>> /\ bad_lines = <<>>
    /\ limit = [given |-> FALSE, n |-> 0]
    /\ matching_rows = <<>> /\ filtered_csv = <<>> /\ matching_urls = <<>>
    /\ all_urls = <<>>

NoStatus == -1

InitIdleAll ==
    /\ apc = "idle" /\ json_folder = [exists |-> FALSE, files |-> <<>>]
    /\ script_exists = FALSE /\ python3_found = FALSE /\ json_files = <<>>
    /\ file_idx = 0 /\ total_extracted = 0 /\ successful_files = 0
    /\ runs = <<>> /\ images_folder = {} /\ exit_status = NoStatus

InitIdleBatches ==
    /\ wpc = "idle" /\ test_urls = <<>> /\ test_keys = <<>> /\ max_workers = 0
    /\ num_workers = 0 /\ courses_per_worker = 0 /\ worker_i = 0
    /\ worker_tasks = <<>>

InitIdleCourse ==
    /\ cpc = "idle" /\ variant = "fixed" /\ xml_url = <<>>
    /\ manifest = <<>> /\ json_list = <<>> /\ json_idx = 0
    /\ successful_json_files = 0 /\ calls = <<>> /\ disk = {}

InitRunner ==
    /\ script \in Scripts
    /\ dry_run \in (IF script = "bad" THEN BOOLEAN ELSE {FALSE})
    /\ \E n \in 1..MaxUrls, k \in 1..MaxKeys :
          /\ urls = LoadUrls(script, n)
          /\ api_keys = LoadApiKeys(k)
    /\ pc = "loop"
    /\ batch_num = 1
    /\ tasks = <<>>
    /\ task_state = <<>>
    /\ scraper_key = <<>>
    /\ future = <<>>
    /\ batch_results = <<>>
    /\ all_results = <<>>
    /\ waits = <<>>
    /\ csv_files = <<>>
    /\ failed_files = <<>>
    /\ times_processed = [u \in 1..Len(urls) |-> 0]
    /\ outcomes = [u \in 1..Len(urls) |-> NoOutcome]

Init ==
    InitRunner /\ InitIdleExtract /\ InitIdleFilter /\ InitIdleAll
        /\ InitIdleCourse /\ InitIdleBatches

DryRunIgnored(flag) == FALSE

(* if args.dry_run: ... return *)
DryRunReturns(flag) == flag

(* scrape_bad_modules.main with --dry-run: the courses are listed and
   main returns before the batch loop. *)
DryRun ==
    /\ pc = "loop"
    /\ DryRunReturns(dry_run)
    /\ pc' = "done"
    /\ UNCHANGED <<script, dry_run, urls, api_keys, batch_num, tasks,
                   task_state, scraper_key, future, batch_results,
                   all_results, waits, csv_files, failed_files,
                   times_processed, outcomes>>

(* process_batch up to the submission of the tasks to the pool. *)
StartBatch ==
    /\ pc = "loop"
    /\ ~DryRunReturns(dry_run)
    /\ LoopContinues(batch_num, TotalBatches(script))
    /\ tasks' = MakeTasks(BatchUrls(batch_num), api_keys, batch_num)
    /\ task_state' = [j \in 1..Len(tasks') |-> "queued"]
    /\ scraper_key' = [j \in 1..Len(tasks') |-> NoKey]
    /\ future' = [j \in 1..Len(tasks') |-> Pending]
    /\ batch_results' = <<>>
    /\ pc' = "pool"
    /\ UNCHANGED <<script, dry_run, urls, api_keys, batch_num, all_results, waits,
                   csv_files, failed_files, times_processed, outcomes>>

(* A pool thread takes the next task of the queue and enters the task
   function: CourseContentScraper(api_key). *)
TaskStart(j) ==
    /\ pc = "pool"
    /\ task_state[j] = "queued"
    /\ \A i \in 1..(j - 1) : task_state[i] # "queued"
    /\ Cardinality(Running) < MaxWorkers(script, Len(tasks), Len(api_keys))
    /\ task_state' = [task_state EXCEPT ![j] = "running"]
    /\ scraper_key' = [scraper_key EXCEPT ![j] = tasks[j].api_key]
    /\ times_processed' =
          [times_processed EXCEPT ![UrlIndex(batch_num, j)] = @ + 1]
    /\ UNCHANGED <<script, dry_run, urls, api_keys, pc, batch_num, tasks, future,
                   batch_results, all_results, waits, csv_files, failed_files,
                   outcomes>>

(* process_course_url returns or raises and the task function ends. *)
TaskFinish(j, o) ==
    /\ pc = "pool"
    /\ task_state[j] = "running"
    /\ task_state' = [task_state EXCEPT ![j] = "done"]
    /\ future' = [future EXCEPT ![j] = ScrapeSingleCourse(script, tasks[j], o)]
    /\ outcomes' = [outcomes EXCEPT ![UrlIndex(batch_num, j)] = o]
    /\ UNCHANGED <<script, dry_run, urls, api_keys, pc, batch_num, tasks, scraper_key,
                   batch_results, all_results, waits, csv_files, failed_files,
                   times_processed>>

(* list(executor.map(...)) and the end of the with block: every task has
   ended; a task function that raised makes main raise. *)
PoolDrain ==
    /\ pc = "pool"
    /\ \A j \in 1..Len(tasks) : task_state[j] = "done"
    /\ IF \E j \in 1..Len(tasks) : future[j].kind = "raise"
       THEN /\ pc' = "aborted"
            /\ UNCHANGED <<batch_results, all_results, batch_num>>
       ELSE LET results == [j \in 1..Len(tasks) |-> future[j].value]
            IN  /\ batch_results' = results
                /\ IF ~Batched(script)
                   THEN /\ pc' = "done"
                        /\ all_results' = results
                        /\ UNCHANGED batch_num
                   ELSE IF NeedsWait(batch_num, TotalBatches(script))
                   THEN /\ pc' = "sleep"
                        /\ UNCHANGED <<all_results, batch_num>>
                   ELSE /\ all_results' = all_results \o results
                        /\ batch_num' = batch_num + 1
                        /\ pc' = IF LoopContinues(batch_num + 1, TotalBatches(script))
                                 THEN "loop" ELSE "final"
    /\ UNCHANGED <<script, dry_run, urls, api_keys, tasks, task_state, scraper_key,
                   future, waits, csv_files, failed_files, times_processed,
                   outcomes>>

(* time.sleep(wait_time) ends, process_batch returns and main extends
   all_results. *)
SleepEnd ==
    /\ pc = "sleep"
    /\ waits' = Append(waits, [after |-> batch_num, secs |-> WaitTime])
    /\ all_results' = all_results \o batch_results
    /\ batch_num' = batch_num + 1
    /\ pc' = IF LoopContinues(batch_num + 1, TotalBatches(script))
             THEN "loop" ELSE "final"
    /\ UNCHANGED <<script, dry_run, urls, api_keys, tasks, task_state, scraper_key,
                   future, batch_results, csv_files, failed_files,
                   times_processed, outcomes>>

(* main writes the result CSV. *)
SaveCsv ==
    /\ pc = "final"
    /\ csv_files' = Append(csv_files, CsvRows(script, all_results))
    /\ pc' = IF script = "bad" /\ Failed(all_results) # <<>>
             THEN "save_failed" ELSE "done"
    /\ UNCHANGED <<script, dry_run, urls, api_keys, batch_num, tasks, task_state,
                   scraper_key, future, batch_results, all_results, waits,
                   failed_files, times_processed, outcomes>>

(* scrape_bad_modules.main writes the failed-modules text file. *)
SaveFailed ==
    /\ pc = "save_failed"
    /\ failed_files' = Append(failed_files, FailedLines(Failed(all_results)))
    /\ pc' = "done"
    /\ UNCHANGED <<script, dry_run, urls, api_keys, batch_num, tasks, task_state,
                   scraper_key, future, batch_results, all_results, waits,
                   csv_files, times_processed, outcomes>>

(* The process stops (it is killed, the machine goes down). *)
Crash ==
    /\ pc \in {"loop", "pool", "sleep", "final", "save_failed"}
    /\ pc' = "crashed"
    /\ UNCHANGED <<script, dry_run, urls, api_keys, batch_num, tasks, task_state,
                   scraper_key, future, batch_results, all_results, waits,
                   csv_files, failed_files, times_processed, outcomes>>

Next ==
    \/ DryRun
    \/ StartBatch
    \/ \E j \in 1..Len(tasks) : TaskStart(j)
    \/ \E j \in 1..Len(tasks), o \in Outcomes : TaskFinish(j, o)
    \/ PoolDrain
    \/ SleepEnd
    \/ SaveCsv
    \/ SaveFailed
    \/ Crash

Spec == Init /\ [][Next /\ UNCHANGED <<extractVars, filterVars, allVars, courseVars, batchVars>>]_vars

(* The steps of the main thread. *)
MainStep ==
    DryRun \/ StartBatch \/ PoolDrain \/ SleepEnd \/ SaveCsv \/ SaveFailed

(* The runners when the main thread keeps running, a free pool thread
   takes the next queued task, and every task that has started returns.
   The process can still be stopped from outside. *)
SpecLive ==
    /\ Spec
    /\ WF_runnerVars(MainStep)
    /\ WF_runnerVars(\E j \in 1..Len(tasks) : TaskStart(j))
    /\ \A j \in 1..MaxUrls :
          WF_runnerVars(j <= Len(tasks) /\ \E o \in Outcomes : TaskFinish(j, o))

----------------------------------------------------------------------------
(* extract_images_from_json of scripts/extract_images_now.py. *)
MinImageBytes == 100

Whitespace == {" ", "\t", "\n", "\r"}

(* not s.strip() *)
IsBlank(s) == \A i \in 1..Len(s) : s[i] \in Whitespace

Sentinel == <<"_", "_", "_">>

PngSuffix == <<".", "p", "n", "g">>

(* s.endswith(suffix) *)
EndsWith(s, suffix) ==
    /\ Len(s) >= Len(suffix)
    /\ SubSeq(s, Len(s) - Len(suffix) + 1, Len(s)) = suffix

(* s.replace(a, b) for one-character a and b *)
ReplaceChar(s, a, b) == [i \in 1..Len(s) |-> IF s[i] = a THEN b ELSE s[i]]

CleanFilenameAlwaysPng(filename) == ReplaceChar(filename, "/", "_") \o PngSuffix

(* clean_filename: '/' replaced by '_', '.png' appended when missing. *)
CleanFilename(filename) ==
    LET clean == ReplaceChar(filename, "/", "_")
    IN  IF EndsWith(clean, PngSuffix) THEN clean ELSE clean \o PngSuffix

B64Alphabet ==
    <<"A", "B", "C", "D", "E", "F", "G", "H", "I", "J", "K", "L", "M",
      "N", "O", "P", "Q", "R", "S", "T", "U", "V", "W", "X", "Y", "Z",
      "a", "b", "c", "d", "e", "f", "g", "h", "i", "j", "k", "l", "m",
      "n", "o", "p", "q", "r", "s", "t", "u", "v", "w", "x", "y", "z",
      "0", "1", "2", "3", "4", "5", "6", "7", "8", "9", "+", "/">>

B64Table ==
    [c \in {B64Alphabet[i] : i \in 1..Len(B64Alphabet)} |->
        (CHOOSE i \in 1..Len(B64Alphabet) : B64Alphabet[i] = c) - 1]

InAlphabet(c) == c \in DOMAIN B64Table

B64Value(c) == B64Table[c]

(* binascii.a2b_base64 without strict mode reads the characters in order:
   a character outside the alphabet is dropped; an '=' met with two or
   three characters of a group read counts as a pad, and the pad that
   completes the group ends the parse; any data character resets the pad
   count.  PadEnd(s) is the position of that pad, or 0 when no pad
   sequence completes a group. *)
DataBefore(s, i) == {k \in 1..(i - 1) : InAlphabet(s[k])}

QuadPos(s, i) == Cardinality(DataBefore(s, i)) % 4

PadsBefore(s, i) ==
    Cardinality({k \in 1..(i - 1) :
                    /\ s[k] = "="
                    /\ \A d \in DataBefore(s, i) : d < k})

CompletesGroup(s, i) ==
    /\ s[i] = "="
    /\ QuadPos(s, i) >= 2
    /\ QuadPos(s, i) + PadsBefore(s, i) + 1 >= 4

PadEnd(s) ==
    LET ends == {i \in 1..Len(s) : CompletesGroup(s, i)}
    IN  IF ends = {} THEN 0 ELSE CHOOSE i \in ends : \A k \in ends : i <= k

(* The bytes of the data characters d: four characters give three bytes,
   a group of two gives one byte and a group of three gives two. *)
BytesOf(d) ==
    LET n == Len(d)
        count == 3 * (n \div 4)
                   + (IF n % 4 = 2 THEN 1 ELSE IF n % 4 = 3 THEN 2 ELSE 0)
        v(k) == B64Value(d[k])
    IN  [b \in 1..count |->
            LET g == 4 * ((b - 1) \div 3)
            IN  CASE (b - 1) % 3 = 0 -> v(g + 1) * 4 + v(g + 2) \div 16
                  [] (b - 1) % 3 = 1 -> (v(g + 2) % 16) * 16 + v(g + 3) \div 4
                  [] (b - 1) % 3 = 2 -> (v(g + 3) % 4) * 64 + v(g + 4)]

(* The base64 texts of the blobs tried: blank, 3 bytes, exactly 100
   bytes, 101 bytes, 102 bytes with a line break inside, and a text whose
   data characters end one past a group. *)
PayloadTexts ==
    { <<" ">>,
      Rep("Q", 4),
      Rep("Q", 134) \o <<"=", "=">>,
      Rep("Q", 135) \o <<"=">>,
      Rep("R", 68) \o <<"\n">> \o Rep("R", 68),
      Rep("Q", 137) }

A2bBase64(s) ==
    LET stop == PadEnd(s)
        read == IF stop = 0 THEN s ELSE SubSeq(s, 1, stop - 1)
        d == SelectSeq(read, InAlphabet)
    IN  IF stop # 0 \/ Len(d) % 4 = 0
        THEN [ok |-> TRUE, data |-> BytesOf(d)]
        ELSE [ok |-> FALSE, data |-> <<>>]

(* The decoder's results on the texts tried, computed once. *)
DecodedTexts == [s \in PayloadTexts |-> A2bBase64(s)]

(* base64.b64decode(base64_data): the bytes, or binascii.Error when the
   data characters do not end on a full or padded group. *)
B64Decode(s) == IF s \in PayloadTexts THEN DecodedTexts[s] ELSE A2bBase64(s)

LargeEnoughInclusive(image_data) == Len(image_data) >= MinImageBytes

(* if len(image_data) > 100 *)
LargeEnough(image_data) == Len(image_data) > MinImageBytes

WriteFileAppend(dir, name, data) ==
    LET old == {f \in dir : f.name = name}
    IN  IF old = {} THEN dir \cup {[name |-> name, data |-> data]}
        ELSE {f \in dir : f.name # name}
                \cup {[name |-> name, data |-> f.data \o data] : f \in old}

(* open(output_path, 'wb') and write: the file is created or replaced. *)
WriteFile(dir, name, data) ==
    {f \in dir : f.name # name} \cup {[name |-> name, data |-> data]}

(* A character with which open() raises ValueError (embedded null byte). *)
NulChar == "\\0"

(* open(output_path, 'wb') succeeds. *)
CanOpen(name) == \A k \in 1..Len(name) : name[k] # NulChar

(* The body of the for loop for one entry: what is done, under which
   file name and with which bytes. *)
ProcessEntry(filename, base64_data) ==
    LET nothing(act) == [act |-> act, name |-> <<>>, data |-> <<>>]
    IN  IF IsBlank(filename) \/ filename = Sentinel THEN nothing("skip_name")
        ELSE IF base64_data.type # "str" THEN nothing("error")
        ELSE IF IsBlank(base64_data.text) THEN nothing("skip_empty")
        ELSE LET d == B64Decode(base64_data.text)
             IN  IF ~d.ok THEN nothing("error")
                 ELSE IF LargeEnough(d.data)
                 THEN IF CanOpen(CleanFilename(filename))
                      THEN [act |-> "write", name |-> CleanFilename(filename),
                            data |-> d.data]
                      ELSE nothing("error")
                 ELSE nothing("skip_small")

NextEntryStopOnError(idx, act, n) == IF act = "error" THEN n + 1 ELSE idx + 1

(* for filename, base64_data in images_data.items(): the try is inside
   the loop, so the loop goes on to the next entry whatever happened. *)
NextEntry(idx, act, n) == idx + 1

(* The filenames and the payloads of the blobs tried. *)
Filenames ==
    { <<" ">>, Sentinel, <<"a">>, <<"a", ".", "p", "n", "g">>,
      <<"d", "/", "a">>, <<"d", "_", "a">>, <<"n", NulChar>>,
      <<".", ".", "\\", "a">> }

(* os.path.join(output_dir, clean_filename) and open(): the characters
   that separate directories on the platform the extractor runs on. *)
Platforms == {"posix", "nt"}

OsSeps(os) == IF os = "nt" THEN {"/", "\\"} ELSE {"/"}

StrValue(text) == [type |-> "str", text |-> text]

Payloads ==
    {StrValue(t) : t \in PayloadTexts} \cup {[type |-> "other", text |-> <<>>]}

Entries == {[filename |-> f, base64_data |-> p] : f \in Filenames, p \in Payloads}

(* A JSON object has each key once. *)
ImageObjects ==
    {o \in UNION {[1..k -> Entries] : k \in 0..MaxEntries} :
        \A i, j \in 1..Len(o) : i # j => o[i].filename # o[j].filename}

Blobs ==
    {[kind |-> k, object |-> <<>>] : k \in {"missing", "nomatch", "badjson"}}
        \cup {[kind |-> "object", object |-> o] : o \in ImageObjects}

(* images_data = json.loads(match.group(1)), when there is one. *)
ImagesData(b) == IF b.kind = "object" THEN b.object ELSE <<>>

(* A file left in the output directory by an earlier extraction. *)
StaleDir == {[name |-> <<"a", ".", "p", "n", "g">>, data |-> <<7, 7, 7>>]}

InitIdleRunner ==
    /\ script = "full" /\ dry_run = FALSE /\ urls = <<>> /\ api_keys = <<>> /\ pc = "idle"
    /\ batch_num = 0 /\ tasks = <<>> /\ task_state = <<>> /\ scraper_key = <<>>
    /\ future = <<>> /\ batch_results = <<>> /\ all_results = <<>>
    /\ waits = <<>> /\ csv_files = <<>> /\ failed_files = <<>>
    /\ times_processed = <<>> /\ outcomes = <<>>

InitExtract ==
    /\ blob \in Blobs
    /\ out_dir = StaleDir
    /\ xpc = "start"
    /\ entry_idx = 0
    /\ extracted_count = 0
    /\ entry_log = <<>>
    /\ run = 1
    /\ first_dir = {}
    /\ first_count = 0

(* The call up to the for loop: the file is read, the pattern searched,
   the object parsed. *)
ExtractBegin ==
    /\ xpc = "start"
    /\ xpc' = "entries"
    /\ entry_idx' = 1
    /\ extracted_count' = 0
    /\ entry_log' = <<>>
    /\ UNCHANGED <<blob, out_dir, run, first_dir, first_count>>

(* One pass of the for loop. *)
ExtractEntry ==
    /\ xpc = "entries"
    /\ entry_idx <= Len(ImagesData(blob))
    /\ LET e == ImagesData(blob)[entry_idx]
           r == ProcessEntry(e.filename, e.base64_data)
       IN  /\ out_dir' = IF r.act = "write"
                         THEN WriteFile(out_dir, r.name, r.data) ELSE out_dir
           /\ extracted_count' = IF r.act = "write"
                                 THEN extracted_count + 1 ELSE extracted_count
           /\ entry_log' = Append(entry_log,
                               [act |-> r.act, name |-> r.name,
                                size |-> Len(r.data)])
           /\ entry_idx' = NextEntry(entry_idx, r.act, Len(ImagesData(blob)))
    /\ UNCHANGED <<xpc, blob, run, first_dir, first_count>>

(* return extracted_count; the first call is followed by a second one on
   the same file and directory. *)
ExtractReturn ==
    /\ xpc = "entries"
    /\ entry_idx > Len(ImagesData(blob))
    /\ IF run = 1
       THEN /\ first_dir' = out_dir
            /\ first_count' = extracted_count
            /\ run' = 2
            /\ xpc' = "start"
       ELSE /\ xpc' = "done"
            /\ UNCHANGED <<first_dir, first_count, run>>
    /\ UNCHANGED <<blob, out_dir, entry_idx, extracted_count, entry_log>>

NextExtract == ExtractBegin \/ ExtractEntry \/ ExtractReturn

InitExtraction ==
    InitIdleRunner /\ InitExtract /\ InitIdleFilter /\ InitIdleAll
        /\ InitIdleCourse /\ InitIdleBatches

SpecExtract ==
    /\ InitExtraction
    /\ [][NextExtract /\ UNCHANGED <<runnerVars, filterVars, allVars, courseVars, batchVars>>]_vars


----------------------------------------------------------------------------
(* The CSV filters: extract_bad_modules_csv of
   scripts/extract_bad_modules_csv.py and load_matching_urls_from_csv of
   scripts/scrape_bad_modules.py. *)

(* s.strip() *)
Strip(s) ==
    LET keep == {i \in 1..Len(s) : s[i] \notin Whitespace}
    IN  IF keep = {} THEN <<>>
        ELSE SubSeq(s, CHOOSE i \in keep : \A k \in keep : i <= k,
                       CHOOSE i \in keep : \A k \in keep : k <= i)

IsIdLineOrComment(lesson_id) == lesson_id # <<>>

(* if lesson_id and not lesson_id.startswith('#') *)
IsIdLine(lesson_id) == lesson_id # <<>> /\ Head(lesson_id) # "#"

(* load_bad_modules_list: the stripped lines that are neither empty nor
   comments, in file order. *)
LoadBadModulesList(lines) ==
    SelectSeq([i \in 1..Len(lines) |-> Strip(lines[i])], IsIdLine)

ToSet(s) == {s[i] : i \in 1..Len(s)}

(* extract_bad_modules_csv: if lesson_id in bad_modules, where
   lesson_id = row.get("lessonID", "").strip() *)
ExtractMatches(row, bad_modules) == Strip(row.lessonID) \in bad_modules

(* load_matching_urls_from_csv: if lesson_id in bad_modules_set, where
   lesson_id = row["lessonID"] *)
LoadMatches(row, bad_modules_set) == row.lessonID \in bad_modules_set

(* extract_bad_modules_csv: the matching rows in CSV order; nothing when
   the list is empty. *)
ExtractBadModulesCsv(rows, lines) ==
    LET bad_modules == ToSet(LoadBadModulesList(lines))
    IN  IF bad_modules = {} THEN <<>>
        ELSE SelectSeq(rows, LAMBDA row : ExtractMatches(row, bad_modules))

(* if limit and len(matching_urls) >= limit: break *)
LimitReached(lim, count) == lim.given /\ lim.n # 0 /\ count >= lim.n

(* The rows as url_data records. *)
AsUrlData(row) == [url |-> row.link, lesson_id |-> row.lessonID]

(* load_matching_urls_from_csv: the loop over the rows from row i on,
   with the list built so far. *)
RECURSIVE LoadLoop(_, _, _, _, _)
LoadLoop(rows, i, bad_modules_set, lim, acc) ==
    IF i > Len(rows) THEN acc
    ELSE IF LoadMatches(rows[i], bad_modules_set)
    THEN IF LimitReached(lim, Len(acc)) THEN acc
         ELSE LoadLoop(rows, i + 1, bad_modules_set, lim,
                       Append(acc, AsUrlData(rows[i])))
    ELSE LoadLoop(rows, i + 1, bad_modules_set, lim, acc)

LoadMatchingUrlsFromCsv(rows, bad_modules_list, lim) ==
    LoadLoop(rows, 1, ToSet(bad_modules_list), lim, <<>>)

(* load_all_urls: the loop over the rows from row i on (i counts from 1,
   enumerate from 0), with the list built so far. *)
RECURSIVE LoadAllLoop(_, _, _, _)
LoadAllLoop(rows, i, lim, acc) ==
    IF i > Len(rows) THEN acc
    ELSE IF lim.given /\ lim.n # 0 /\ i - 1 >= lim.n THEN acc
    ELSE LoadAllLoop(rows, i + 1, lim, Append(acc, AsUrlData(rows[i])))

LoadAllUrls(rows, lim) == LoadAllLoop(rows, 1, lim, <<>>)

(* The rows and the lines tried: lesson IDs "A", "B", "C" and "A "; the
   lines "A", " B", "#A" and the empty line. *)
RowPool ==
    { [lessonID |-> <<"A">>, link |-> 1],
      [lessonID |-> <<"B">>, link |-> 2],
      [lessonID |-> <<"A", " ">>, link |-> 3],
      [lessonID |-> <<"C">>, link |-> 4] }

LinePool == { <<"A">>, <<" ", "B">>, <<"#", "A">>, <<>> }

Limits ==
    {[given |-> FALSE, n |-> 0]} \cup {[given |-> TRUE, n |-> k] : k \in 0..MaxLimit}

InitFilter ==
    /\ master_rows \in UNION {[1..k -> RowPool] : k \in 0..MaxRows}
    /\ bad_lines \in UNION {[1..k -> LinePool] : k \in 0..MaxBadLines}
    /\ limit \in Limits
    /\ fpc = "start"
    /\ matching_rows = <<>>
    /\ filtered_csv = <<>>
    /\ matching_urls = <<>>
    /\ all_urls = <<>>

(* A run of extract_bad_modules_csv.py: the filtered CSV is written when
   a row matched. *)
RunExtractBadModulesCsv ==
    /\ fpc = "start"
    /\ matching_rows' = ExtractBadModulesCsv(master_rows, bad_lines)
    /\ filtered_csv' = IF matching_rows' = <<>> THEN filtered_csv
                       ELSE Append(filtered_csv, matching_rows')
    /\ fpc' = "extracted"
    /\ UNCHANGED <<master_rows, bad_lines, limit, matching_urls, all_urls>>

(* scrape_bad_modules.main up to the loading of the URLs. *)
RunLoadMatchingUrls ==
    /\ fpc = "extracted"
    /\ matching_urls' =
          LET bad_modules_list == LoadBadModulesList(bad_lines)
          IN  IF bad_modules_list = <<>> THEN <<>>
              ELSE LoadMatchingUrlsFromCsv(master_rows, bad_modules_list, limit)
    /\ fpc' = "done"
    /\ UNCHANGED <<master_rows, bad_lines, limit, matching_rows, filtered_csv,
                   all_urls>>

(* parallel_scraper_full.main up to the loading of the URLs. *)
RunLoadAllUrls ==
    /\ fpc = "done"
    /\ all_urls' = LoadAllUrls(master_rows, limit)
    /\ fpc' = "all_loaded"
    /\ UNCHANGED <<master_rows, bad_lines, limit, matching_rows, filtered_csv,
                   matching_urls>>

NextFilter == RunExtractBadModulesCsv \/ RunLoadMatchingUrls \/ RunLoadAllUrls

InitFiltering ==
    InitIdleRunner /\ InitIdleExtract /\ InitFilter /\ InitIdleAll
        /\ InitIdleCourse /\ InitIdleBatches

SpecFilter ==
    /\ InitFiltering
    /\ [][NextFilter /\ UNCHANGED <<runnerVars, extractVars, allVars, courseVars, batchVars>>]_vars


----------------------------------------------------------------------------
(* extract_all_images and main of extract_images_all.py; each file is
   handed to a subprocess running extract_images_now.py. *)
MaxFiles == 3

(* The names a JSON folder can hold: three that match dr_img*.json, whose
   sorted order is not their numeric order, and one that does not. *)
FileNames ==
    { <<"d", "r", "_", "i", "m", "g", "1", ".", "j", "s", "o", "n">>,
      <<"d", "r", "_", "i", "m", "g", "1", "0", ".", "j", "s", "o", "n">>,
      <<"d", "r", "_", "i", "m", "g", "2", ".", "j", "s", "o", "n">>,
      <<"d", "r", "_", "m", "e", "t", "a", ".", "j", "s", "o", "n">> }

StartsWith(s, prefix) ==
    Len(s) >= Len(prefix) /\ SubSeq(s, 1, Len(prefix)) = prefix

(* glob: dr_img*.json *)
GlobPrefix == <<"d", "r", "_", "i", "m", "g">>

GlobSuffix == <<".", "j", "s", "o", "n">>

GlobMatches(name) ==
    /\ Len(name) >= Len(GlobPrefix) + Len(GlobSuffix)
    /\ StartsWith(name, GlobPrefix)
    /\ EndsWith(name, GlobSuffix)

RECURSIVE InsertName(_, _)
InsertName(x, s) ==
    IF s = <<>> THEN <<x>>
    ELSE IF StrLess(x, Head(s)) THEN <<x>> \o s
    ELSE <<Head(s)>> \o InsertName(x, Tail(s))

(* json_files = glob.glob(pattern); json_files.sort() *)
RECURSIVE SortedNames(_)
SortedNames(names) ==
    IF names = {} THEN <<>>
    ELSE LET x == CHOOSE n \in names : TRUE
         IN  InsertName(x, SortedNames(names \ {x}))

(* The file contents tried: text that is not JSON, text without the
   pattern, a file that cannot be read as UTF-8, an object of two images
   and an object whose first payload does not decode. *)
TwoImages ==
    << [filename |-> <<"a">>, base64_data |-> StrValue(Rep("Q", 135) \o <<"=">>)],
       [filename |-> <<"d", "/", "a">>,
        base64_data |-> StrValue(Rep("R", 68) \o <<"\n">> \o Rep("R", 68))] >>

OneFailing ==
    << [filename |-> <<"a", ".", "p", "n", "g">>,
        base64_data |-> StrValue(Rep("Q", 137))],
       [filename |-> <<"d", "_", "a">>,
        base64_data |-> StrValue(Rep("Q", 135) \o <<"=">>)] >>

FileBlobs ==
    {[kind |-> k, object |-> <<>>] : k \in {"badjson", "nomatch", "unreadable"}}
        \cup {[kind |-> "object", object |-> o] : o \in {TwoImages, OneFailing}}

(* One entry of the for loop of extract_images_from_json: r is what
   the loop body does with entry s.i. *)
LoopBody(s, r, n) ==
    [i |-> NextEntry(s.i, r.act, n),
     dir |-> IF r.act = "write" THEN WriteFile(s.dir, r.name, r.data) ELSE s.dir,
     count |-> IF r.act = "write" THEN s.count + 1 ELSE s.count]

LoopEntry(s, e, n) == LoopBody(s, ProcessEntry(e.filename, e.base64_data), n)

LoopPass(images_data, s) ==
    IF s.i > Len(images_data) THEN s
    ELSE LoopEntry(s, images_data[s.i], Len(images_data))

LoopResult(s) == [dir |-> s.dir, count |-> s.count]

(* The for loop of extract_images_from_json from entry i on. *)
ExtractLoop(images_data, i, dir, count) ==
    LET n == Len(images_data)
        after[k \in 0..n] ==
            IF k = 0 THEN [i |-> i, dir |-> dir, count |-> count]
            ELSE LoopPass(images_data, after[k - 1])
    IN  LoopResult(after[n])

RaisesOnBadJson(b) == b.kind \in {"unreadable", "badjson"}

(* The exceptions that leave extract_images_from_json: f.read() of a file
   that is not UTF-8.  json.JSONDecodeError is caught inside. *)
Raises(b) == b.kind = "unreadable"

DigitChars == <<"0", "1", "2", "3", "4", "5", "6", "7", "8", "9">>

(* str(n) in an f-string *)
RECURSIVE FormatInt(_)
FormatInt(n) ==
    IF n < 10 THEN <<DigitChars[n + 1]>>
    ELSE FormatInt(n \div 10) \o <<DigitChars[(n % 10) + 1]>>

(* int(match.group(1)) *)
RECURSIVE ParseInt(_)
ParseInt(digits) ==
    IF digits = <<>> THEN 0
    ELSE LET last == digits[Len(digits)]
             value == (CHOOSE i \in 1..10 : DigitChars[i] = last) - 1
         IN  ParseInt(SubSeq(digits, 1, Len(digits) - 1)) * 10 + value

(* The end of extract_images_from_json after the loop gave r. *)
Extracted(r) ==
    [dir |-> r.dir, count |-> r.count, raised |-> FALSE,
     stdout |-> <<[line |-> "Successfully extracted",
                   digits |-> FormatInt(r.count)]>>]

(* extract_images_from_json(json_file_path, output_dir): the directory
   afterwards, the count returned, whether an exception left the call,
   and the lines printed that extract_all_images looks for. *)
ExtractImagesFromJson(b, dir) ==
    IF Raises(b)
    THEN [dir |-> dir, count |-> 0, raised |-> TRUE, stdout |-> <<>>]
    ELSE IF b.kind = "object"
    THEN Extracted(ExtractLoop(b.object, 1, dir, 0))
    ELSE [dir |-> dir, count |-> 0, raised |-> FALSE,
          stdout |-> <<[line |-> IF b.kind = "badjson"
                                 THEN "JSON decode error"
                                 ELSE "Could not find", digits |-> <<>>]>>]

(* The number extract_all_images reads from the subprocess's output. *)
CountFromStdout(stdout) ==
    LET hits == {i \in 1..Len(stdout) : stdout[i].line = "Successfully extracted"}
    IN  IF hits = {} THEN 0
        ELSE ParseInt(stdout[CHOOSE i \in hits : \A k \in hits : i <= k].digits)

Folders ==
    {[exists |-> FALSE, files |-> <<>>]} \cup
    {[exists |-> TRUE, files |-> f] :
        f \in UNION {[names -> FileBlobs] :
                        names \in {n \in SUBSET FileNames : Cardinality(n) <= MaxFiles}}}

InitAll ==
    /\ json_folder \in Folders
    /\ script_exists \in BOOLEAN
    /\ python3_found \in BOOLEAN
    /\ apc = "start"
    /\ json_files = <<>>
    /\ file_idx = 0
    /\ total_extracted = 0
    /\ successful_files = 0
    /\ runs = <<>>
    /\ images_folder = {}
    /\ exit_status = NoStatus

(* sys.exit(1) when extract_all_images returned False. *)
ExitStatus(success) == IF success THEN 0 ELSE 1

ReturnsAlwaysTrue(n) == TRUE

(* return successful_files > 0 *)
Returns(n) == n > 0

(* extract_all_images up to the for loop: the folder, the files found,
   the output folder, the extractor script. *)
AllBegin ==
    /\ apc = "start"
    /\ LET found == IF json_folder.exists
                    THEN SortedNames({n \in DOMAIN json_folder.files : GlobMatches(n)})
                    ELSE <<>>
       IN  IF ~json_folder.exists \/ found = <<>> \/ ~script_exists
           THEN /\ apc' = "exit"
                /\ exit_status' = ExitStatus(FALSE)
                /\ json_files' = found
                /\ UNCHANGED file_idx
           ELSE /\ apc' = "files"
                /\ json_files' = found
                /\ file_idx' = 1
                /\ UNCHANGED exit_status
    /\ UNCHANGED <<json_folder, script_exists, python3_found, total_extracted,
                   successful_files, runs, images_folder>>

(* One pass of the for loop: the subprocess for one file, and what is
   made of its return code and output. *)
RunFile(name, r, returncode) ==
    IF ~python3_found
    THEN /\ runs' = Append(runs, [file |-> name, started |-> FALSE,
                                  returncode |-> NoStatus, count |-> 0,
                                  changed |-> FALSE])
         /\ UNCHANGED <<images_folder, successful_files, total_extracted>>
    ELSE /\ runs' = Append(runs, [file |-> name, started |-> TRUE,
                                  returncode |-> returncode,
                                  count |-> r.count,
                                  changed |-> r.dir # images_folder])
         /\ images_folder' = r.dir
         /\ successful_files' = IF returncode = 0
                                THEN successful_files + 1
                                ELSE successful_files
         /\ total_extracted' = IF returncode = 0
                               THEN total_extracted + CountFromStdout(r.stdout)
                               ELSE total_extracted

ReturnCode(r) == IF r.raised THEN 1 ELSE 0

RunSubprocess(name, r) == RunFile(name, r, ReturnCode(r))

AllFile ==
    /\ apc = "files"
    /\ file_idx <= Len(json_files)
    /\ RunSubprocess(json_files[file_idx],
                     ExtractImagesFromJson(json_folder.files[json_files[file_idx]],
                                           images_folder))
    /\ file_idx' = file_idx + 1
    /\ UNCHANGED <<apc, json_folder, script_exists, python3_found, json_files,
                   exit_status>>

(* The end of extract_all_images and of main. *)
AllReturn ==
    /\ apc = "files"
    /\ file_idx > Len(json_files)
    /\ apc' = "exit"
    /\ exit_status' = ExitStatus(Returns(successful_files))
    /\ UNCHANGED <<json_folder, script_exists, python3_found, json_files,
                   file_idx, total_extracted, successful_files, runs,
                   images_folder>>

NextAll == AllBegin \/ AllFile \/ AllReturn

InitAllImages ==
    InitIdleRunner /\ InitIdleExtract /\ InitIdleFilter /\ InitAll
        /\ InitIdleCourse /\ InitIdleBatches

SpecAll ==
    /\ InitAllImages
    /\ [][NextAll /\ UNCHANGED <<runnerVars, extractVars, filterVars, courseVars, batchVars>>]_vars

----------------------------------------------------------------------------
(* process_course_url and scrape_and_save of scripts/fixed_scraper.py and
   of firecrawl_scraper.py. *)
MaxFallbackFiles == 1

Variants == {"fixed", "firecrawl"}

UpperChars == <<"A", "B", "C", "D", "E", "F", "G", "H", "I", "J", "K", "L", "M",
                "N", "O", "P", "Q", "R", "S", "T", "U", "V", "W", "X", "Y", "Z">>

LowerChars == <<"a", "b", "c", "d", "e", "f", "g", "h", "i", "j", "k", "l", "m",
                "n", "o", "p", "q", "r", "s", "t", "u", "v", "w", "x", "y", "z">>

(* s.lower() *)
Lower(s) ==
    [i \in 1..Len(s) |->
        IF \E k \in 1..26 : UpperChars[k] = s[i]
        THEN LowerChars[CHOOSE k \in 1..26 : UpperChars[k] = s[i]]
        ELSE s[i]]

(* s.split('/') *)
RECURSIVE SplitSlash(_)
SplitSlash(s) ==
    LET cuts == {i \in 1..Len(s) : s[i] = "/"}
    IN  IF cuts = {} THEN <<s>>
        ELSE LET i == CHOOSE c \in cuts : \A k \in cuts : c <= k
             IN  <<SubSeq(s, 1, i - 1)>> \o SplitSlash(SubSeq(s, i + 1, Len(s)))

(* url.rsplit('/', 1)[0] + '/' : the parts of the URL without the last. *)
GetBaseUrl(url) == IF Len(url) > 1 THEN SubSeq(url, 1, Len(url) - 1) ELSE url

(* urljoin(base_url, relative) for a base that ends in '/' and a relative
   path without '..'. *)
UrlJoin(base_url, relative) == base_url \o SplitSlash(relative)

JsSuffix == <<".", "j", "s">>

(* url.lower().endswith('.js') *)
IsJsUrl(url) == EndsWith(Lower(url[Len(url)]), JsSuffix)

(* Path.with_suffix on the last part of a path. *)
WithSuffix(path, suffix) ==
    LET name == path[Len(path)]
        dots == {i \in 2..Len(name) : name[i] = "."}
        stem == IF dots = {} THEN name
                ELSE SubSeq(name, 1, (CHOOSE i \in dots : \A k \in dots : k <= i) - 1)
    IN  SubSeq(path, 1, Len(path) - 1) \o <<stem \o suffix>>

MdSuffix == <<".", "m", "d">>

HtmlSuffix == <<".", "h", "t", "m", "l">>

MetadataSuffix == <<".", "m", "e", "t", "a", "d", "a", "t", "a", ".", "j", "s", "o", "n">>

ManifestStem == <<"i", "m", "s", "m", "a", "n", "i", "f", "e", "s", "t">>

JsonFolder == <<"J", "S", "O", "N">>

CpmRelative == <<"a", "s", "s", "e", "t", "s", "/", "j", "s", "/", "C", "P", "M", ".", "j", "s">>

CpmName == <<"C", "P", "M", ".", "j", "s">>

ProjectName == <<"p", "r", "o", "j", "e", "c", "t", ".", "t", "x", "t">>

WordChars ==
    {UpperChars[k] : k \in 1..26} \cup {LowerChars[k] : k \in 1..26}
        \cup {DigitChars[k] : k \in 1..10} \cup {"_"}

RefPrefix == <<"d", "r", "/", "i", "m", "g">>

(* re: dr/img\w*\.json with re.IGNORECASE, on a word of the text. *)
RefMatches(word) ==
    LET w == Lower(word)
        n == Len(w)
    IN  /\ n >= Len(RefPrefix) + Len(GlobSuffix)
        /\ StartsWith(w, RefPrefix)
        /\ EndsWith(w, GlobSuffix)
        /\ \A i \in (Len(RefPrefix) + 1)..(n - Len(GlobSuffix)) : word[i] \in WordChars

FindJsonFilesUnsorted(words) == SelectSeq(words, RefMatches)

(* sorted(list(set(matches))) *)
FindJsonFilesFromManifest(words) ==
    SortedNames({words[i] : i \in {k \in 1..Len(words) : RefMatches(words[k])}})

(* get_fallback_json_files(max_files): dr/img1.json .. dr/img{max_files}.json,
   then the two metadata files. *)
GetFallbackJsonFiles(max_files) ==
    [i \in 1..max_files |-> RefPrefix \o FormatInt(i) \o GlobSuffix]
        \o << <<"d", "r", "/", "i", "m", "g", "m", "d", ".", "j", "s", "o", "n">>,
              <<"d", "r", "/", "m", "e", "t", "a", "d", "a", "t", "a", ".", "j", "s", "o", "n">> >>

(* get_fallback_json_files(max_files=50) in process_course_url; the
   model tries the first MaxFallbackFiles of the numbered names. *)
FallbackMaxFiles == 50

(* json_file.replace('/', '_').replace('\\', '_') *)
SafeFilename(json_file) == ReplaceChar(ReplaceChar(json_file, "/", "_"), "\\", "_")

(* What the scraping API answers to scrape_url: an exception, a result
   without success, or a result with markdown ("json": text that parses
   as JSON, "text": other text, "none": absent or empty), html, metadata;
   words are the words of the markdown and html text. *)
ApiAnswer(kind, markdown, html, metadata, words) ==
    [kind |-> kind, markdown |-> markdown, html |-> html,
     metadata |-> metadata, words |-> words]

ApiRaise == ApiAnswer("raise", "none", FALSE, FALSE, <<>>)

ApiFail == ApiAnswer("fail", "none", FALSE, FALSE, <<>>)

ApiAnswers ==
    { ApiRaise, ApiFail,
      ApiAnswer("ok", "json", TRUE, TRUE, <<>>),
      ApiAnswer("ok", "text", FALSE, FALSE, <<>>),
      ApiAnswer("ok", "none", TRUE, FALSE, <<>>) }

(* The manifests tried: references out of order, one repeated, one to a
   file that is not dr/img*.json; references in upper case; none. *)
ManifestWords ==
    << <<"d", "r", "/", "i", "m", "g", "2", ".", "j", "s", "o", "n">>,
       <<"d", "r", "/", "i", "m", "g", "1", "0", ".", "j", "s", "o", "n">>,
       <<"d", "r", "/", "o", "t", "h", "e", "r", ".", "j", "s", "o", "n">>,
       <<"d", "r", "/", "i", "m", "g", "2", ".", "j", "s", "o", "n">> >>

UpperWords ==
    << <<"D", "R", "/", "I", "M", "G", "1", ".", "J", "S", "O", "N">>,
       <<"d", "r", "/", "i", "m", "g", "2", ".", "j", "s", "o", "n">> >>

ManifestAnswers ==
    { ApiRaise, ApiFail,
      ApiAnswer("ok", "text", FALSE, TRUE, <<>>),
      ApiAnswer("ok", "text", TRUE, FALSE, ManifestWords),
      ApiAnswer("ok", "none", TRUE, FALSE, UpperWords) }

(* What requests.get gives: an exception (also raise_for_status), or a
   body, which may be empty. *)
GetAnswers ==
    { [kind |-> "raise", body |-> "none"],
      [kind |-> "ok", body |-> "js"],
      [kind |-> "ok", body |-> "empty"] }

CourseUrls ==
    { << <<"h", "t", "t", "p", "s", ":">>, <<>>, <<"h">>, <<"c", "1">>, <<"l", "1">>, <<"i", "m", "s", "m", "a", "n", "i", "f", "e", "s", "t", ".", "x", "m", "l">> >>,
      << <<"h", "t", "t", "p", "s", ":">>, <<>>, <<"h">>, <<"c", "1">>, <<"l", "1">>, <<"M", "a", "n", "i", "f", "e", "s", "t", ".", "J", "S">> >> }

File(path, kind) == [path |-> path, kind |-> kind]

(* open(path, 'w') and write, for each file of writes. *)
WriteAll(files, writes) ==
    {f \in files : \A w \in writes : w.path # f.path} \cup writes

(* _scrape_raw_file: a direct GET, the formatted text written to
   output_path and returned; None on any exception. *)
ScrapeRawFile(url, output_path, g) ==
    IF g.kind = "raise"
    THEN [via |-> "get", result |-> "none", writes |-> {}]
    ELSE [via |-> "get",
          result |-> IF g.body = "empty" THEN "empty" ELSE "content",
          writes |-> {File(output_path, "javascript")}]

ViaGetNever(v, url) == FALSE

(* scrape_and_save of firecrawl_scraper.py: if url.lower().endswith('.js') *)
ViaGet(v, url) == v = "firecrawl" /\ IsJsUrl(url)

(* scrape_and_save: how the URL was fetched, what is returned ("object":
   the API's result, "content" / "empty": the text downloaded, "none":
   None) and the files written. *)
ScrapeAndSave(v, url, output_path, a) ==
    IF ViaGet(v, url) THEN ScrapeRawFile(url, output_path, a)
    ELSE IF a.kind # "ok" THEN [via |-> "api", result |-> "none", writes |-> {}]
    ELSE [via |-> "api", result |-> "object",
          writes |->
              (IF a.markdown # "none"
               THEN {File(WithSuffix(output_path, MdSuffix), "markdown")} ELSE {})
              \cup (IF a.html
                    THEN {File(WithSuffix(output_path, HtmlSuffix), "html")} ELSE {})
              \cup (IF a.metadata
                    THEN {File(WithSuffix(output_path, MetadataSuffix), "metadata")}
                    ELSE {})]

(* What the outside world can answer to the fetch of url. *)
AnswersFor(v, url) == IF ViaGet(v, url) THEN GetAnswers ELSE ApiAnswers

TruthyAlways(result) == TRUE

(* if not xml_content / if json_content *)
Truthy(result) == result \in {"object", "content"}

StepOrderExtractLate == <<"manifest", "json", "cpm", "extract", "project", "done">>

(* The steps of process_course_url, in the order of its statements. *)
StepOrder == <<"manifest", "json", "extract", "cpm", "project", "done">>

After(step) == StepOrder[(CHOOSE i \in 1..Len(StepOrder) : StepOrder[i] = step) + 1]

(* A fetch or subprocess that has returned: the step, the index of the
   JSON file, how it was made, the URL, the output path, what the outside
   answered and what came back. *)
Call(step, n, via, url, path, answer, result) ==
    [step |-> step, n |-> n, via |-> via, url |-> url, path |-> path,
     answer |-> answer, result |-> result]

InitCourse ==
    /\ variant \in Variants
    /\ xml_url \in CourseUrls
    /\ manifest \in (IF ViaGet(variant, xml_url) THEN {ApiRaise}
                     ELSE ManifestAnswers)
    /\ cpc = "manifest"
    /\ json_list = <<>>
    /\ json_idx = 0
    /\ successful_json_files = 0
    /\ calls = <<>>
    /\ disk = {}

(* main_folder and json_folder of create_folder_structure. *)
CourseFolder == <<ExtractFolderName(xml_url)>>

CourseJsonFolder == CourseFolder \o <<JsonFolder>>

ImagesFolder ==
    <<"e", "x", "t", "r", "a", "c", "t", "e", "d", "_", "i", "m", "a", "g", "e", "s">>

CourseImagesFolder == CourseFolder \o <<ImagesFolder>>

(* create_folder_structure: the three mkdir(exist_ok=True). *)
CreateFolderStructure ==
    {File(CourseFolder, "directory"), File(CourseJsonFolder, "directory"),
     File(CourseImagesFolder, "directory")}

(* Step 1: the folders, the manifest, the list of JSON files; the method
   returns when the manifest could not be scraped. *)
CourseManifest ==
    /\ cpc = "manifest"
    /\ \E a \in (IF ViaGet(variant, xml_url) THEN GetAnswers ELSE {manifest}) :
          LET path == CourseFolder \o <<ManifestStem>>
              r == ScrapeAndSave(variant, xml_url, path, a)
              found == FindJsonFilesFromManifest(
                           IF r.result = "object" THEN manifest.words ELSE <<>>)
          IN  /\ calls' = Append(calls, Call("manifest", 0, r.via, xml_url,
                                             path, a.kind, r.result))
              /\ disk' = WriteAll(WriteAll(disk, CreateFolderStructure), r.writes)
              /\ IF Truthy(r.result)
                 THEN /\ json_list' = IF found = <<>>
                                      THEN GetFallbackJsonFiles(
                                               Min(FallbackMaxFiles, MaxFallbackFiles))
                                      ELSE found
                      /\ json_idx' = 1
                      /\ cpc' = After("manifest")
                 ELSE /\ cpc' = "done"
                      /\ UNCHANGED <<json_list, json_idx>>
    /\ UNCHANGED <<variant, xml_url, manifest, successful_json_files>>

(* Step 2, one pass of the loop: the JSON file is scraped and, when it
   came with markdown, saved as .json. *)
CourseJson ==
    /\ cpc = "json"
    /\ \E a \in AnswersFor(variant,
                             UrlJoin(GetBaseUrl(xml_url), json_list[json_idx])) :
          LET json_file == json_list[json_idx]
              json_url == UrlJoin(GetBaseUrl(xml_url), json_file)
              path == CourseJsonFolder \o <<SafeFilename(json_file)>>
              r == ScrapeAndSave(variant, json_url, path, a)
              saved == IF r.result = "object" /\ a.markdown # "none"
                       THEN {File(WithSuffix(path, GlobSuffix),
                                  IF a.markdown = "json" THEN "json" ELSE "text")}
                       ELSE {}
          IN  /\ calls' = Append(calls, Call("json", json_idx, r.via, json_url,
                                             path, a.kind, r.result))
              /\ disk' = WriteAll(WriteAll(disk, r.writes), saved)
              /\ successful_json_files' = IF Truthy(r.result)
                                          THEN successful_json_files + 1
                                          ELSE successful_json_files
    /\ json_idx' = json_idx + 1
    /\ cpc' = IF json_idx = Len(json_list) THEN After("json") ELSE "json"
    /\ UNCHANGED <<variant, xml_url, manifest, json_list>>

(* Step 3: run_extract_images_all, a subprocess that is waited for; it
   is skipped when extract_images_all.py is not in the working directory,
   and whatever it does or raises is only reported. *)
CourseExtract ==
    /\ cpc = "extract"
    /\ \E outcome \in {"skipped", "returned 0", "returned 1", "raised"} :
          calls' = Append(calls,
                       Call("extract", 0,
                            IF outcome = "skipped" THEN "none" ELSE "subprocess",
                            <<>>, CourseJsonFolder, outcome, outcome))
    /\ cpc' = After("extract")
    /\ UNCHANGED <<variant, xml_url, manifest, json_list, json_idx,
                   successful_json_files, disk>>

(* Steps 4 and 5: CPM.js and project.txt. *)
CourseAsset(step, relative, name) ==
    /\ cpc = step
    /\ \E a \in AnswersFor(variant, UrlJoin(GetBaseUrl(xml_url), relative)) :
          LET url == UrlJoin(GetBaseUrl(xml_url), relative)
              path == CourseFolder \o <<name>>
              r == ScrapeAndSave(variant, url, path, a)
          IN  /\ calls' = Append(calls, Call(step, 0, r.via, url, path,
                                             a.kind, r.result))
              /\ disk' = WriteAll(disk, r.writes)
    /\ cpc' = After(step)
    /\ UNCHANGED <<variant, xml_url, manifest, json_list, json_idx,
                   successful_json_files>>

CourseCpm == CourseAsset("cpm", CpmRelative, CpmName)

CourseProject == CourseAsset("project", ProjectName, ProjectName)

NextCourse ==
    CourseManifest \/ CourseJson \/ CourseExtract \/ CourseCpm \/ CourseProject

InitCourseRun ==
    InitIdleRunner /\ InitIdleExtract /\ InitIdleFilter /\ InitIdleAll
        /\ InitCourse /\ InitIdleBatches

SpecCourse ==
    /\ InitCourseRun
    /\ [][NextCourse /\ UNCHANGED <<runnerVars, extractVars, filterVars, allVars, batchVars>>]_vars

----------------------------------------------------------------------------
(* create_worker_batches of tests/test_full_scraper.py. *)

(* The largest max_workers tried. *)
MaxPool == 4

FloorDiv(a, b) == a \div b

(* math.ceil(a / b) for a >= 0, b >= 1 *)
CeilDiv(a, b) == (a + b - 1) \div b

(* urls[start_idx:end_idx] *)
Slice(s, start_idx, end_idx) == SubSeq(s, start_idx + 1, end_idx)

InitBatches ==
    /\ \E n \in 0..MaxUrls : test_urls = [u \in 1..n |-> LessonIds[u]]
    /\ \E k \in 1..MaxKeys : test_keys = LoadApiKeys(k)
    /\ max_workers \in 1..MaxPool
    /\ wpc = "start"
    /\ num_workers = 0
    /\ courses_per_worker = 0
    /\ worker_i = 0
    /\ worker_tasks = <<>>

(* num_workers and courses_per_worker; the loop starts. *)
CreateBegin ==
    /\ wpc = "start"
    /\ num_workers' = Min(max_workers, Len(test_keys))
    /\ courses_per_worker' =
          CeilDiv(Len(test_urls), Min(max_workers, Len(test_keys)))
    /\ worker_i' = 0
    /\ worker_tasks' = <<>>
    /\ wpc' = "loop"
    /\ UNCHANGED <<test_urls, test_keys, max_workers>>

WorkerTask(start_idx, end_idx) ==
    [course_batch |-> Slice(test_urls, start_idx, end_idx),
     api_key |-> test_keys[(worker_i % Len(test_keys)) + 1],
     worker_id |-> worker_i + 1]

(* One pass of for i in range(num_workers). *)
CreatePass ==
    /\ wpc = "loop"
    /\ worker_i < num_workers
    /\ worker_tasks' =
          IF worker_i * courses_per_worker < Len(test_urls)
          THEN Append(worker_tasks,
                      WorkerTask(worker_i * courses_per_worker,
                                 Min(worker_i * courses_per_worker
                                         + courses_per_worker,
                                     Len(test_urls))))
          ELSE worker_tasks
    /\ worker_i' = worker_i + 1
    /\ UNCHANGED <<wpc, test_urls, test_keys, max_workers, num_workers,
                   courses_per_worker>>

(* return worker_tasks *)
CreateReturn ==
    /\ wpc = "loop"
    /\ worker_i = num_workers
    /\ wpc' = "done"
    /\ UNCHANGED <<test_urls, test_keys, max_workers, num_workers,
                   courses_per_worker, worker_i, worker_tasks>>

NextBatches == CreateBegin \/ CreatePass \/ CreateReturn

InitWorkerBatches ==
    InitIdleRunner /\ InitIdleExtract /\ InitIdleFilter /\ InitIdleAll
        /\ InitIdleCourse /\ InitBatches

SpecBatches ==
    /\ InitWorkerBatches
    /\ [][NextBatches /\ UNCHANGED <<runnerVars, extractVars, filterVars,
                                      allVars, courseVars>>]_vars

----------------------------------------------------------------------------
(* Properties of the parallel runners. *)
(* The batch loop of main has ended (a dry run never enters it). *)
AfterLoop == ~dry_run /\ pc \in {"final", "save_failed", "done"}

(* C1: in every runner the task at 0-based position i of the submitted
   task list is handed api_keys[i mod len(api_keys)]; the scraper of a
   started task holds that key, and the record of a finished task shows
   it. *)
C1_RoundRobinKey ==
    \A j \in 1..Len(tasks) :
        LET key == api_keys[((j - 1) % Len(api_keys)) + 1]
        IN  /\ tasks[j].api_key = key
            /\ task_state[j] # "queued" => scraper_key[j] = key
            /\ task_state[j] = "queued" => scraper_key[j] = NoKey
            /\ (task_state[j] = "done" /\ script # "simple")
                  => future[j].value.api_key = KeyDisplay(key)

(* A task past the end of the key list has finished: its key wrapped
   around. *)
C1_Witness ==
    \E j \in 1..Len(tasks) : j > Len(api_keys) /\ task_state[j] = "done"

(* C2: a course whose processing raised yields a record with status
   'failed' carrying the error text; the run does not abort, and after
   the last batch every URL of every batch has its own record, 'failed'
   exactly for the courses that raised. *)
C2_FailureIsolated ==
    /\ pc # "aborted"
    /\ \A j \in 1..Len(tasks) :
          LET o == outcomes[UrlIndex(tasks[j].batch_num, j)]
          IN  (task_state[j] = "done" /\ o.kind = "raise") =>
                 /\ future[j].kind = "return"
                 /\ future[j].value.status = "failed"
                 /\ "error" \in DOMAIN future[j].value
                 /\ Batched(script) =>
                       future[j].value.error = Min(o.msg, ErrorLimitFull)
    /\ (Batched(script) /\ AfterLoop) =>
          /\ Len(all_results) = Len(urls)
          /\ \A u \in 1..Len(urls) :
                all_results[u].status =
                    IF outcomes[u].kind = "raise" THEN "failed" ELSE "success"

(* The first course of a run of several batches raised, the last course
   succeeded, and the run has ended. *)
C2_Witness ==
    /\ Batched(script)
    /\ pc = "done"
    /\ TotalBatches(script) >= 2
    /\ outcomes[1].kind = "raise"
    /\ outcomes[Len(urls)].kind = "return"
    /\ Len(tasks) >= 1

(* C3: in parallel_scraper_full and scrape_bad_modules no URL is handed
   to a task more than once, and after the last batch every URL has been
   processed exactly once and all_results holds exactly one record per
   URL, with status 'success' or 'failed'. *)
C3_EachUrlOnce ==
    Batched(script) =>
        /\ \A u \in 1..Len(urls) : times_processed[u] <= 1
        /\ AfterLoop =>
              /\ Len(all_results) = Len(urls)
              /\ \A u \in 1..Len(urls) :
                    /\ times_processed[u] = 1
                    /\ all_results[u].lesson_id = urls[u].lesson_id
                    /\ (all_results[u].batch_num - 1) * Len(api_keys)
                          + all_results[u].worker_id = u
                    /\ all_results[u].status \in {"success", "failed"}

(* A run of at least two batches whose last batch is not full has
   ended, with a failed course in it. *)
C3_Witness ==
    /\ Batched(script)
    /\ pc = "done"
    /\ Len(urls) > Len(api_keys)
    /\ Len(urls) % Len(api_keys) # 0
    /\ \E u \in 1..Len(urls) : outcomes[u].kind = "raise"

ExpectedWaits(n) == [b \in 1..n |-> [after |-> b, secs |-> WaitTime]]

(* C8: in parallel_scraper_full and scrape_bad_modules tasks run only
   while main is inside the pool of the current batch; the wait begins
   only when every task of the batch has returned; the tasks of batch
   b+1 start only after the 30-second waits after batches 1..b have
   ended; and the run makes exactly one wait after every batch but the
   last, whatever the tasks' outcomes. *)
C8_BatchesThenWait ==
    Batched(script) =>
        /\ Running # {} => pc \in {"pool", "crashed"}
        /\ pc = "sleep" =>
              /\ \A j \in 1..Len(tasks) : task_state[j] = "done"
              /\ Len(tasks) >= 1
              /\ batch_num < TotalBatches(script)
              /\ waits = ExpectedWaits(batch_num - 1)
        /\ pc \in {"loop", "pool"} => waits = ExpectedWaits(batch_num - 1)
        /\ AfterLoop => waits = ExpectedWaits(TotalBatches(script) - 1)

(* A run of three batches has ended with two waits, its first course
   having failed. *)
C8_Witness ==
    /\ Batched(script)
    /\ pc = "done"
    /\ Len(waits) = 2
    /\ outcomes[1].kind = "raise"

(* C9: in every runner the number of tasks running at the same time is
   at most the number of API keys and at most the pool size handed to
   the executor. *)
C9_PoolWithinKeys ==
    /\ Cardinality(Running) <= Len(api_keys)
    /\ Cardinality(Running) <= MaxWorkers(script, Len(tasks), Len(api_keys))

(* C10: in parallel_scraper_full and scrape_bad_modules no result CSV
   exists while batches are still to run or running; the CSV is written
   once, after the last batch, with one row per task; a process that
   stopped before the last batch had drained left no result row on
   disk. *)
C10_CsvOnceAtEnd ==
    Batched(script) =>
        /\ Len(csv_files) <= 1
        /\ pc \in {"loop", "pool", "sleep", "final"} => csv_files = <<>>
        /\ (pc = "crashed" /\ Len(all_results) < Len(urls)) => csv_files = <<>>
        /\ (pc = "done" /\ ~dry_run) => Len(csv_files) = 1
        /\ csv_files # <<>> =>
              /\ Len(all_results) = Len(urls)
              /\ Len(csv_files[1]) = Len(urls)
              /\ \A u \in 1..Len(urls) :
                    /\ csv_files[1][u].lesson_id = urls[u].lesson_id
                    /\ (csv_files[1][u].batch_num - 1) * Len(api_keys)
                          + csv_files[1][u].worker_id = u
                    /\ csv_files[1][u].status = all_results[u].status

(* A run of several batches, one course failed, has written its CSV. *)
C10_Witness ==
    /\ Batched(script)
    /\ pc = "done"
    /\ Len(csv_files) = 1
    /\ Len(waits) >= 1
    /\ \E u \in 1..Len(urls) : outcomes[u].kind = "raise"

----------------------------------------------------------------------------
(* Properties of extract_images_from_json. *)
PathSeparators == {"/"}

(* The entries of the blob the loop has handled in this call. *)
Handled == 1..Len(entry_log)

(* The bytes b64decode gives for entry i, <<>> when it gives none. *)
DecodedOf(i) ==
    LET v == ImagesData(blob)[i].base64_data
    IN  IF v.type = "str" /\ ~IsBlank(v.text) /\ B64Decode(v.text).ok
        THEN B64Decode(v.text).data
        ELSE <<>>

(* C4: a file is written for an entry only if the entry's decoded
   payload is longer than 100 bytes (exactly 100 is excluded), and every
   file the calls left in the directory holds more than 100 bytes. *)
C4_NoSmallImage ==
    /\ \A i \in Handled :
          entry_log[i].act = "write" =>
              /\ Len(DecodedOf(i)) > 100
              /\ entry_log[i].size = Len(DecodedOf(i))
    /\ \A f \in out_dir : f \notin StaleDir => Len(f.data) > 100

(* An entry of exactly 100 decoded bytes was skipped and one of 101
   bytes written. *)
C4_Witness ==
    /\ \E i \in Handled :
          Len(DecodedOf(i)) = 100 /\ entry_log[i].act = "skip_small"
    /\ \E i \in Handled :
          Len(DecodedOf(i)) = 101 /\ entry_log[i].act = "write"

(* C5: when the second call on the same blob and directory has returned,
   the directory holds the same files with the same contents as after
   the first call, and both calls returned the same count. *)
C5_Idempotent ==
    xpc = "done" =>
        /\ out_dir = first_dir
        /\ extracted_count = first_count

(* Both calls wrote, and two entries of the blob wrote the same file. *)
C5_Witness ==
    /\ xpc = "done"
    /\ extracted_count = 2
    /\ entry_log[1].name = entry_log[2].name

(* The file name the claim prescribes for a filename. *)
IsNameFor(name, filename) ==
    LET n == Len(filename)
        swapped == \A k \in 1..n :
                      name[k] = IF filename[k] \in PathSeparators
                                THEN "_" ELSE filename[k]
    IN  /\ Len(name) >= n
        /\ swapped
        /\ EndsWith(name, PngSuffix)
        /\ IF EndsWith(filename, PngSuffix)
           THEN Len(name) = n
           ELSE Len(name) = n + Len(PngSuffix)

(* C7: an entry whose filename is blank or '___', or whose payload is
   blank, is skipped; an entry that is written goes to the file named by
   its filename with every path separator replaced by '_' and '.png'
   appended unless the name already ends in '.png'. *)
C7_SkipAndName ==
    \A i \in Handled :
        LET e == ImagesData(blob)[i]
        IN  /\ (IsBlank(e.filename) \/ e.filename = Sentinel)
                  => entry_log[i].act = "skip_name"
            /\ (e.base64_data.type = "str" /\ IsBlank(e.base64_data.text))
                  => entry_log[i].act \in {"skip_name", "skip_empty"}
            /\ entry_log[i].act = "write" =>
                  /\ IsNameFor(entry_log[i].name, e.filename)
                  /\ \E f \in out_dir : f.name = entry_log[i].name

(* An entry with a path separator and no '.png' was written, after an
   entry with the sentinel filename was skipped. *)
C7_Witness ==
    /\ Len(entry_log) = 2
    /\ entry_log[1].act = "skip_name"
    /\ ImagesData(blob)[1].filename = Sentinel
    /\ entry_log[2].act = "write"
    /\ ImagesData(blob)[2].filename = <<"d", "/", "a">>

----------------------------------------------------------------------------
(* Properties of the CSV filters. *)

(* The rows of the master CSV whose lessonID is in the bad-module set,
   in CSV order. *)
RowsInSet == SelectSeq(master_rows,
                 LAMBDA row : row.lessonID \in ToSet(LoadBadModulesList(bad_lines)))

(* C6: extract_bad_modules_csv, and load_matching_urls_from_csv without
   a limit, return exactly the rows of the master CSV whose lessonID is
   in the bad-module set, each as often as it occurs, in CSV order. *)
C6_FilterExact ==
    /\ fpc \in {"extracted", "done"} => matching_rows = RowsInSet
    /\ (fpc = "done" /\ ~limit.given) =>
          matching_urls = [i \in 1..Len(RowsInSet) |-> AsUrlData(RowsInSet[i])]

(* C11: two tasks that run at the same time never create or write files
   in the same course folder. *)
C11_NoSharedFolder ==
    \A j \in Running : \A k \in Running :
        j # k => MainFolder(tasks[j].url_data) # MainFolder(tasks[k].url_data)

(* The lines of a text file that are neither blank nor '#' comments. *)
NonCommentLines(lines) ==
    SelectSeq(lines, LAMBDA l : ~IsBlank(l) /\ Head(l) # "#")

(* How often x occurs in the sequence s. *)
Occurrences(s, x) == Cardinality({i \in 1..Len(s) : s[i] = x})

(* C12: after a run of scrape_bad_modules, when a result failed, one
   failed-modules file exists whose non-comment lines are the lesson IDs
   of the failed results, one line per failed result and no line for a
   lesson that only succeeded, in ascending (string) order; when no result
   failed, no failed-modules file exists. *)
C12_FailedFile ==
    (script = "bad" /\ pc = "done") =>
        LET failed == {u \in 1..Len(all_results) : all_results[u].status = "failed"}
        IN  IF failed = {}
            THEN failed_files = <<>>
            ELSE /\ Len(failed_files) = 1
                 /\ LET lines == NonCommentLines(failed_files[1])
                    IN  /\ Len(lines) = Cardinality(failed)
                        /\ \A u \in 1..Len(all_results) :
                              Occurrences(lines, all_results[u].lesson_id) =
                              Cardinality({v \in failed :
                                  all_results[v].lesson_id = all_results[u].lesson_id})
                        /\ \A i \in 1..(Len(lines) - 1) :
                              ~StrLess(lines[i + 1], lines[i])

(* A run of scrape_bad_modules has ended in which the lessons "9" and
   "10" failed, in that CSV order, and another lesson succeeded. *)
C12_Witness ==
    /\ script = "bad"
    /\ pc = "done"
    /\ Len(all_results) >= 3
    /\ all_results[1].status = "failed"
    /\ all_results[2].status = "failed"
    /\ all_results[3].status = "success"
    /\ Len(failed_files) = 1

(* Entry i fails: its payload is not text or cannot be decoded, or its
   file cannot be opened. *)
EntryFails(i) ==
    LET e == ImagesData(blob)[i]
        v == e.base64_data
    IN  /\ ~(IsBlank(e.filename) \/ e.filename = Sentinel)
        /\ \/ v.type # "str"
           \/ /\ ~IsBlank(v.text)
              /\ \/ ~B64Decode(v.text).ok
                 \/ /\ Len(DecodedOf(i)) > 100
                    /\ \E k \in 1..Len(e.filename) : e.filename[k] = NulChar

(* The last entry handled so far that wrote the file called name. *)
LastWriter(name) ==
    CHOOSE j \in Handled :
        /\ entry_log[j].act = "write" /\ entry_log[j].name = name
        /\ \A k \in Handled :
              (entry_log[k].act = "write" /\ entry_log[k].name = name) => k <= j

(* C13: a failing entry is skipped and writes nothing, the loop goes on
   to every later entry, which is handled as it would be alone, and the
   file of every entry written before is still in the directory. *)
C13_BestEffort ==
    /\ xpc = "entries" => Len(entry_log) = entry_idx - 1
    /\ xpc = "done" => Len(entry_log) = Len(ImagesData(blob))
    /\ \A i \in Handled :
          LET e == ImagesData(blob)[i]
              alone == ProcessEntry(e.filename, e.base64_data)
          IN  /\ EntryFails(i) <=> entry_log[i].act = "error"
              /\ entry_log[i].act = alone.act
              /\ entry_log[i].name = alone.name
              /\ entry_log[i].act = "write" =>
                    \E f \in out_dir :
                        /\ f.name = entry_log[i].name
                        /\ f.data = DecodedOf(LastWriter(f.name))

(* A call in which the first entry failed to decode and the second entry
   was written. *)
C13_Witness ==
    /\ Len(entry_log) = 2
    /\ entry_log[1].act = "error"
    /\ EntryFails(1)
    /\ ImagesData(blob)[1].base64_data.type = "str"
    /\ entry_log[2].act = "write"
    /\ \E f \in out_dir : f.name = entry_log[2].name /\ f.data = DecodedOf(2)

----------------------------------------------------------------------------
(* Properties of extract_images_all. *)

(* The files of the JSON folder that match dr_img*.json. *)
MatchingFiles ==
    IF json_folder.exists
    THEN {n \in DOMAIN json_folder.files : GlobMatches(n)}
    ELSE {}

(* C14: on a file whose captured text is not valid JSON the extractor
   raises nothing (its process returns 0), writes no image and returns 0;
   extract_all_images handles every dr_img*.json file of the folder, one
   subprocess each, whatever the files before it held. *)
C14_BadJsonConfined ==
    /\ \A i \in 1..Len(runs) :
          (runs[i].started /\ json_folder.files[runs[i].file].kind = "badjson")
              => /\ runs[i].returncode = 0
                 /\ runs[i].count = 0
                 /\ ~runs[i].changed
    /\ \A i \in 1..Len(runs) : runs[i].file = json_files[i]
    /\ apc = "files" => Len(runs) = file_idx - 1
    /\ (apc = "exit" /\ script_exists) =>
          /\ Len(runs) = Cardinality(MatchingFiles)
          /\ {runs[i].file : i \in 1..Len(runs)} = MatchingFiles

(* A file that is not valid JSON was handled and the file after it gave
   images. *)
C14_Witness ==
    /\ Len(runs) >= 2
    /\ runs[1].started
    /\ json_folder.files[runs[1].file].kind = "badjson"
    /\ runs[2].returncode = 0
    /\ runs[2].count >= 1
    /\ total_extracted >= 1

(* C18: extract_images_all exits with 1 when the JSON folder does not
   exist, holds no dr_img*.json file, the extractor script is missing, or
   no subprocess returned 0; it exits with 0 exactly when some file's
   subprocess returned 0. *)
C18_ExitStatus ==
    apc = "exit" =>
        /\ exit_status \in {0, 1}
        /\ exit_status = 0 <=>
              \E i \in 1..Len(runs) : runs[i].started /\ runs[i].returncode = 0
        /\ (~json_folder.exists \/ MatchingFiles = {} \/ ~script_exists)
              => exit_status = 1

(* An exit with 0 after one subprocess failed and a later one returned 0. *)
C18_Witness ==
    /\ apc = "exit"
    /\ exit_status = 0
    /\ Len(runs) >= 2
    /\ runs[1].returncode = 1
    /\ runs[2].returncode = 0

(* C15: with --limit N, N >= 0, parallel_scraper_full loads the first N
   rows of its CSV and scrape_bad_modules the first N rows whose lessonID
   is in the bad-module list, in CSV order and never more than N; without
   --limit they load all rows (all such rows). *)
C15_LimitFirstN ==
    fpc = "all_loaded" =>
        LET rows == [i \in 1..Len(master_rows) |-> AsUrlData(master_rows[i])]
            matching == [i \in 1..Len(RowsInSet) |-> AsUrlData(RowsInSet[i])]
        IN  /\ all_urls = IF limit.given THEN Take(rows, limit.n) ELSE rows
            /\ matching_urls = IF limit.given THEN Take(matching, limit.n)
                               ELSE matching

(* C16: a run of scrape_bad_modules with --dry-run starts no course task,
   makes no scraping call, does not wait, and writes neither a result CSV
   nor a failed-modules file. *)
C16_DryRunDoesNothing ==
    (script = "bad" /\ dry_run) =>
        /\ tasks = <<>>
        /\ \A u \in 1..Len(urls) :
              times_processed[u] = 0 /\ outcomes[u] = NoOutcome
        /\ all_results = <<>>
        /\ waits = <<>>
        /\ csv_files = <<>>
        /\ failed_files = <<>>

(* A dry run over several courses, more than there are keys, has ended. *)
C16_Witness ==
    /\ script = "bad"
    /\ dry_run
    /\ pc = "done"
    /\ Len(urls) > Len(api_keys)

(* C20: in process_batch of parallel_scraper_full and scrape_bad_modules
   no two tasks running at the same time use the same API key. *)
C20_KeyExclusive ==
    Batched(script) =>
        \A j \in Running : \A k \in Running :
            j # k => /\ tasks[j].api_key # tasks[k].api_key
                     /\ scraper_key[j] # scraper_key[k]

(* Two tasks of a second batch run at the same time, with the keys the
   first batch's tasks had. *)
C20_Witness ==
    /\ Batched(script)
    /\ batch_num = 2
    /\ Cardinality(Running) >= 2
    /\ \A j \in Running : scraper_key[j] = api_keys[j]

----------------------------------------------------------------------------
(* Properties of process_course_url and scrape_and_save. *)

(* The place of a step in the order the claim gives. *)
StepRank(step) ==
    CASE step = "manifest" -> 1
      [] step = "json" -> 2
      [] step = "extract" -> 3
      [] step = "cpm" -> 4
      [] step = "project" -> 5

(* C17: the calls of process_course_url come one after the other in the
   order manifest, every JSON file in list order, image extractor, CPM.js,
   project.txt; the extractor starts only when every JSON file has been
   fetched and written. *)
C17_StepOrder ==
    /\ \A i \in 1..Len(calls) :
          /\ i = 1 <=> calls[i].step = "manifest"
          /\ calls[i].step = "json" =>
                /\ calls[i].n = i - 1
                /\ calls[i].url = UrlJoin(GetBaseUrl(xml_url), json_list[i - 1])
          /\ calls[i].step = "extract" => i = Len(json_list) + 2
          /\ calls[i].step = "cpm" => i = Len(json_list) + 3
          /\ calls[i].step = "project" => i = Len(json_list) + 4
          /\ i > 1 => StepRank(calls[i - 1].step) <= StepRank(calls[i].step)
    /\ (\E i \in 1..Len(calls) : calls[i].step = "extract") =>
          \A k \in 1..Len(json_list) :
              /\ calls[k + 1].step = "json"
              /\ calls[k + 1].result = "object" =>
                    \E f \in disk :
                        f.path \in {WithSuffix(calls[k + 1].path, x) :
                                       x \in {MdSuffix, HtmlSuffix, GlobSuffix}}

(* A course with several JSON files, found in its manifest, has been
   processed to the end. *)
C17_Witness ==
    /\ cpc = "done"
    /\ manifest.words # <<>>
    /\ Len(json_list) >= 2
    /\ Len(calls) = Len(json_list) + 4
    /\ calls[Len(calls)].step = "project"
    /\ calls[2].result = "object"

(* The URL's lower-cased form ends in '.js'. *)
EndsInJs(url) ==
    LET last == url[Len(url)]
        n == Len(last)
    IN  /\ n >= 3
        /\ last[n - 2] = "."
        /\ last[n - 1] \in {"j", "J"}
        /\ last[n] \in {"s", "S"}

(* C19: firecrawl_scraper's scrape_and_save fetches a URL ending in '.js'
   (in any case) with a direct GET and never through the scraping API; the
   text goes to exactly the output path, so CPM.js holds JavaScript and no
   markdown is written for it; a download that failed gives None and
   nothing else. *)
C19_JsDirectGet ==
    variant = "firecrawl" =>
        \A i \in 1..Len(calls) :
            (calls[i].step # "extract" /\ EndsInJs(calls[i].url)) =>
                /\ calls[i].via = "get"
                /\ calls[i].answer = "ok" =>
                      /\ calls[i].result # "none"
                      /\ File(calls[i].path, "javascript") \in disk
                /\ calls[i].answer = "raise" =>
                      /\ calls[i].result = "none"
                      /\ \A f \in disk : f.path # calls[i].path
                /\ \A f \in disk :
                      f.path \in {WithSuffix(calls[i].path, x) :
                                     x \in {MdSuffix, HtmlSuffix}}
                          => f.path = calls[i].path

(* CPM.js was downloaded and written, in a course whose JSON fetch before
   went through the API. *)
C19_Witness ==
    /\ variant = "firecrawl"
    /\ \E i \in 1..Len(calls) :
          /\ calls[i].step = "cpm"
          /\ calls[i].via = "get"
          /\ calls[i].result = "content"
          /\ File(CourseFolder \o <<CpmName>>, "javascript") \in disk
    /\ calls[2].via = "api"

----------------------------------------------------------------------------
(* Further properties of the parallel runners. *)

(* C21: in parallel_scraper_demo.main and tests/test_parallel_simple.main
   every task is assigned an API key different from the key of every other
   task, so no key is used by two tasks running at the same time. *)
C21_DistinctKeys ==
    ~Batched(script) =>
        /\ \A j \in 1..Len(tasks) : \A k \in 1..Len(tasks) :
              j # k => tasks[j].api_key # tasks[k].api_key
        /\ \A j \in Running : \A k \in Running :
              j # k => scraper_key[j] # scraper_key[k]


(* C22: a result record has status 'success' only if the course's
   manifest was fetched; a course whose manifest fetch failed is recorded
   as 'failed' and is in the failed-modules file. *)
C22_SuccessNeedsManifest ==
    /\ \A j \in 1..Len(tasks) :
          LET o == outcomes[UrlIndex(tasks[j].batch_num, j)]
          IN  (Batched(script) /\ task_state[j] = "done"
                  /\ future[j].kind = "return"
                  /\ future[j].value.status = "success") =>
                 (o.kind = "return" /\ o.xml_content)
    /\ (script = "bad" /\ pc = "done" /\ ~dry_run) =>
          \A u \in 1..Len(urls) :
              (outcomes[u].kind = "return" /\ ~outcomes[u].xml_content) =>
                  /\ Len(failed_files) = 1
                  /\ \E i \in 1..Len(failed_files[1]) :
                        failed_files[1][i] = urls[u].lesson_id


----------------------------------------------------------------------------
(* Further properties of process_course_url. *)

(* C23: when the manifest fetch fails, process_course_url returns there:
   no JSON file is fetched, the extractor is not run, CPM.js and
   project.txt are not fetched; the course folder and its JSON and
   extracted_images sub-folders exist and are left in place. *)
C23_ManifestFailureStops ==
    (calls # <<>> /\ calls[1].result \in {"none", "empty"}) =>
        /\ cpc = "done"
        /\ Len(calls) = 1
        /\ calls[1].step = "manifest"
        /\ json_list = <<>>
        /\ successful_json_files = 0
        /\ \A d \in {CourseFolder, CourseFolder \o <<JsonFolder>>,
                     CourseFolder \o <<ImagesFolder>>} :
              File(d, "directory") \in disk
        /\ \A f \in disk :
              f.kind # "directory" => f.path = calls[1].path

(* The scraping call for the manifest raised and the method has returned. *)
C23_Witness ==
    /\ cpc = "done"
    /\ Len(calls) = 1
    /\ calls[1].answer = "raise"
    /\ calls[1].result = "none"
    /\ File(CourseFolder \o <<ImagesFolder>>, "directory") \in disk


----------------------------------------------------------------------------
(* Further properties of extract_images_from_json. *)

(* The names of the files the entries handled so far wrote. *)
WrittenNames == {entry_log[i].name : i \in {k \in Handled : entry_log[k].act = "write"}}

(* C24: the count extract_images_from_json returns equals the number of
   distinct image files the call wrote. *)
C24_CountIsFiles ==
    (xpc = "entries" /\ entry_idx > Len(ImagesData(blob))) =>
        extracted_count = Cardinality(WrittenNames)


(* C25: every file extract_images_from_json writes is a direct child of
   the output directory, whatever the filename key: the name it opens
   has no directory separator of the platform. *)
C25_DirectChild ==
    \A os \in Platforms :
        \A name \in WrittenNames :
            \A k \in 1..Len(name) : name[k] \notin OsSeps(os)


----------------------------------------------------------------------------
(* Further properties of the parallel runners: the error text. *)

(* The maximum the claim gives for a runner. *)
MaxErrorLength(s) == IF s \in {"full", "bad"} THEN 200 ELSE 100

(* C26: the error text of a failed result record is never longer than
   the runner's maximum (200 characters in parallel_scraper_full and
   scrape_bad_modules, 100 in parallel_scraper_demo and the test
   runners) and is a prefix of the exception message. *)
C26_ErrorTruncated ==
    \A j \in 1..Len(tasks) :
        (task_state[j] = "done" /\ future[j].kind = "return"
            /\ future[j].value.status = "failed") =>
           LET o == outcomes[UrlIndex(tasks[j].batch_num, j)]
           IN  /\ future[j].value.error <= MaxErrorLength(script)
               /\ future[j].value.error = Min(o.msg, MaxErrorLength(script))


(* The names the claim gives for the fallback with n numbered files. *)
FallbackNames(n) ==
    [i \in 1..(n + 2) |->
        IF i <= n
        THEN <<"d", "r", "/", "i", "m", "g">> \o FormatInt(i)
                 \o <<".", "j", "s", "o", "n">>
        ELSE IF i = n + 1
        THEN <<"d", "r", "/", "i", "m", "g", "m", "d", ".", "j", "s", "o", "n">>
        ELSE <<"d", "r", "/", "m", "e", "t", "a", "d", "a", "t", "a", ".", "j", "s", "o", "n">>]

(* The dr/img*.json names in the manifest that was scraped. *)
NamedInManifest ==
    IF calls # <<>> /\ calls[1].result = "object"
    THEN {manifest.words[i] :
             i \in {k \in 1..Len(manifest.words) : RefMatches(manifest.words[k])}}
    ELSE {}

(* The names of the JSON files attempted so far, in the order of the
   attempts. *)
Attempted ==
    LET js == SelectSeq(calls, LAMBDA c : c.step = "json")
    IN  [i \in 1..Len(js) |-> js[i].url[Len(js[i].url) - 1] \o <<"/">>
                                  \o js[i].url[Len(js[i].url)]]

(* What process_course_url asks get_fallback_json_files for. *)
FallbackIsFiftyTwo ==
    /\ GetFallbackJsonFiles(FallbackMaxFiles) = FallbackNames(50)
    /\ Len(GetFallbackJsonFiles(FallbackMaxFiles)) = 52

(* C27: when the manifest names no dr/img*.json file the names attempted
   are dr/img1.json .. dr/img50.json, dr/imgmd.json, dr/metadata.json, in
   that order (52 names); otherwise they are exactly the names found,
   each once, in sorted order, and no fallback name is added. *)
C27_Filenames ==
    /\ FallbackIsFiftyTwo
    /\ (calls # <<>> /\ calls[1].result \in {"object", "content"}) =>
          /\ IF NamedInManifest = {}
             THEN json_list = FallbackNames(Min(50, MaxFallbackFiles))
             ELSE /\ {json_list[i] : i \in 1..Len(json_list)} = NamedInManifest
                  /\ \A i \in 1..(Len(json_list) - 1) :
                        StrLess(json_list[i], json_list[i + 1])
          /\ Attempted = SubSeq(json_list, 1, Len(Attempted))
          /\ cpc \notin {"manifest", "json"} => Len(Attempted) = Len(json_list)

(* A manifest without names was scraped and the fallback names were
   tried to the last. *)
C27_Witness ==
    /\ cpc = "extract"
    /\ calls[1].result = "object"
    /\ NamedInManifest = {}
    /\ Len(Attempted) = MaxFallbackFiles + 2


----------------------------------------------------------------------------
(* The failed-modules file read back. *)

(* C28: load_bad_modules_list on the failed-modules file gives exactly
   the lesson IDs of the failed results: the header is dropped, nothing
   is added and nothing is lost. *)
C28_FailedFileReadBack ==
    (script = "bad" /\ pc = "done" /\ Len(failed_files) = 1) =>
        LET read == LoadBadModulesList(failed_files[1])
            failed == {u \in 1..Len(all_results) : all_results[u].status = "failed"}
        IN  /\ ToSet(read) = {all_results[u].lesson_id : u \in failed}
            /\ Len(read) = Cardinality(failed)
            /\ \A u \in 1..Len(all_results) :
                  (all_results[u].lesson_id \in ToSet(read)) =>
                      \E v \in failed :
                          all_results[v].lesson_id = all_results[u].lesson_id

(* Two lessons failed, one succeeded, and the file of the run reads back
   as two lesson IDs. *)
C28_Witness ==
    /\ script = "bad"
    /\ pc = "done"
    /\ Len(failed_files) = 1
    /\ Len(LoadBadModulesList(failed_files[1])) = 2
    /\ Len(all_results) = 3


----------------------------------------------------------------------------
(* Properties of create_worker_batches. *)

RECURSIVE Flatten(_)
Flatten(batches) ==
    IF batches = <<>> THEN <<>>
    ELSE Head(batches).course_batch \o Flatten(Tail(batches))

(* C29: the course batches create_worker_batches returns are non-empty
   slices of the URL list which, one after the other, give the URL list
   back (contiguous, in list order, disjoint, every URL once); there are
   at most min(max_workers, len(api_keys)) batches and each has a
   different API key. *)
C29_Partition ==
    wpc = "done" =>
        /\ \A b \in 1..Len(worker_tasks) : worker_tasks[b].course_batch # <<>>
        /\ Flatten(worker_tasks) = test_urls
        /\ Len(worker_tasks) <= max_workers
        /\ Len(worker_tasks) <= Len(test_keys)
        /\ \A a \in 1..Len(worker_tasks) : \A b \in 1..Len(worker_tasks) :
              a # b => worker_tasks[a].api_key # worker_tasks[b].api_key

(* Four URLs and three workers: two batches of two, and the third worker
   gets none. *)
C29_Witness ==
    /\ wpc = "done"
    /\ Len(test_urls) = 4
    /\ num_workers = 3
    /\ Len(worker_tasks) = 2
    /\ Len(worker_tasks[2].course_batch) = 2


----------------------------------------------------------------------------
(* Termination of the batched runners. *)

(* Every batch has been completed and the result CSV is written. *)
RunCompleted ==
    /\ batch_num = TotalBatches(script) + 1
    /\ Len(all_results) = Len(urls)
    /\ Len(csv_files) = 1

(* A batch is left only when every task of it has returned, and a batch
   is started only from the loop of main. *)
BatchWaitsForTasks ==
    [][/\ (pc = "pool" /\ pc' \notin {"pool", "crashed"}) =>
              \A j \in 1..Len(tasks) : task_state[j] = "done"
       /\ tasks' # tasks => pc = "loop"
       /\ batch_num' # batch_num => pc \in {"pool", "sleep"}]_vars

(* C30: when every started task returns, a run of parallel_scraper_full
   or scrape_bad_modules (not a dry run, not stopped from outside)
   completes every batch and writes the result CSV; a batch is never left
   and no later batch is started while a task of it has not returned. *)
C30_RunCompletes ==
    /\ (Batched(script) /\ ~dry_run) => <>(pc = "crashed" \/ RunCompleted)
    /\ BatchWaitsForTasks

(* A run of three batches has completed. *)
C30_Witness ==
    /\ Batched(script)
    /\ RunCompleted
    /\ TotalBatches(script) = 3
    /\ Len(waits) = 2

====
